---- MODULE Spec2Model ----
(***************************************************************************)
(* Dynamic block-weight controller of the parachain-system pallet          *)
(* (cumulus/pallets/parachain-system/src/block_weight and                  *)
(* max_parachain_block_weight.rs), modelled as the state machine the       *)
(* transaction pipeline drives within one block:                           *)
(*   on_initialize -> pre-inherent hook -> extrinsics (bare or signed,     *)
(*   each pre-validated, prepared, dispatched, post-dispatched) -> end.    *)
(*                                                                         *)
(* Weights are counted in scaled units: one second of ref_time is          *)
(* WEIGHT_REF_TIME_PER_SECOND units and a full PoV is MAX_POV_SIZE units.  *)
(* An Option<T> is the empty sequence (None) or a one-element sequence.    *)
(*                                                                         *)
(* The weight queries, the refund of post_dispatch, the collator service   *)
(* (cumulus/client/collator/src/service.rs) and the two loops of the EVM   *)
(* interpreter (substrate/frame/revive/src/vm/evm.rs) are applied to       *)
(* inputs drawn from bounded sets in specifications of their own.          *)
(***************************************************************************)
EXTENDS Integers, Sequences, FiniteSets, TLC

\* ------------------------------------------------------------------------
\* Program constants (scaled)
\* ------------------------------------------------------------------------
WEIGHT_REF_TIME_PER_SECOND == 2
MAX_POV_SIZE == 5
\* the value u64 arithmetic saturates at; no weight of the model comes near it
U64_MAX == 1000000
\* polkadot_primitives: bounds of the message vectors of a Collation (scaled)
MAX_UPWARD_MESSAGE_NUM == 4
MAX_HORIZONTAL_MESSAGE_NUM == 2

\* ------------------------------------------------------------------------
\* Bounds of the model
\* ------------------------------------------------------------------------
\* number of extrinsics applied in the block
MaxExtrinsics == 2
\* number of block hashes the backend of the collator knows of
NumHashes == 2
\* largest block number of a header handed to the collator
MaxBlockNumber == 1
\* number of blocks handed to build_multi_block_collation
MaxBlocks == 2
\* number of bytes of a contract's bytecode
MaxCodeLen == 4
\* gas limit of a call of the interpreter, one unit for each instruction
MaxGas == 5
\* the const parameter MAX_TRANSACTION_TO_CONSIDER of the extension
MaxWindow == 1
\* largest CoreInfo.number_of_cores handed to the weight queries
MaxCores == 4
\* largest TargetBlockRate handed to the weight queries
MaxTargetBlocks == 4
\* largest component of a weight of Config::WeightInfo handed to the refund
MaxBranchWeight == 1

\* ------------------------------------------------------------------------
\* Option, Weight
\* ------------------------------------------------------------------------
None == <<>>
Some(x) == <<x>>
unwrap_or_default(o) == IF o = <<>> THEN 0 ELSE o[1]
\* Option::or
or(a, b) == IF a # <<>> THEN a ELSE b

Min(a, b) == IF a < b THEN a ELSE b
Max(a, b) == IF a > b THEN a ELSE b

\* u64 saturating arithmetic
saturating_add_u64(a, b) == Min(a + b, U64_MAX)
saturating_sub_u64(a, b) == Max(a - b, 0)
saturating_mul_u64(a, b) == Min(a * b, U64_MAX)
\* u64::saturating_div: plain integer division (the callers exclude b = 0)
saturating_div_u64(a, b) == a \div b

from_parts(r, p) == [ref_time |-> r, proof_size |-> p]
zero == from_parts(0, 0)
saturating_add(a, b) ==
    from_parts(saturating_add_u64(a.ref_time, b.ref_time),
               saturating_add_u64(a.proof_size, b.proof_size))
saturating_sub(a, b) ==
    from_parts(saturating_sub_u64(a.ref_time, b.ref_time),
               saturating_sub_u64(a.proof_size, b.proof_size))
any_gt(a, b) == a.ref_time > b.ref_time \/ a.proof_size > b.proof_size
all_lte(a, b) == a.ref_time <= b.ref_time /\ a.proof_size <= b.proof_size

DispatchClasses == {"Normal", "Operational", "Mandatory"}

\* ------------------------------------------------------------------------
\* BlockWeightMode
\* ------------------------------------------------------------------------
FullCore == [kind |-> "FullCore"]
PotentialFullCore(fti, tw) ==
    [kind |-> "PotentialFullCore", first_transaction_index |-> fti, target_weight |-> tw]
FractionOfCore(fti) ==
    [kind |-> "FractionOfCore", first_transaction_index |-> fti]

\* ------------------------------------------------------------------------
\* Digest items
\* ------------------------------------------------------------------------
CoreInfoItem(n) == [item |-> "CoreInfo", number_of_cores |-> n]
BundleInfoItem(i) == [item |-> "BundleInfo", index |-> i]
UseFullCore == [item |-> "UseFullCore"]

RECURSIVE find_item(_, _, _)
find_item(d, name, i) ==
    IF i > Len(d) THEN None
    ELSE IF d[i].item = name THEN Some(d[i])
    ELSE find_item(d, name, i + 1)

find_core_info(d) == find_item(d, "CoreInfo", 1)
find_bundle_info(d) == find_item(d, "BundleInfo", 1)
deposit_log(d, it) == Append(d, it)
CountUseFullCore(d) == Cardinality({i \in 1..Len(d) : d[i].item = "UseFullCore"})

\* ------------------------------------------------------------------------
\* State
\* ------------------------------------------------------------------------
VARIABLES
    mode,               \* crate::BlockWeightMode storage value, Option<BlockWeightMode>
    digest,             \* frame_system digest of the block
    block_weight,       \* frame_system::BlockWeight, per dispatch class
    inherents_applied,  \* frame_system::inherents_applied()
    extrinsic_index,    \* frame_system::extrinsic_index()
    pc,                 \* position of the pipeline
    cur,                \* DispatchInfo of the extrinsic in flight
    last,               \* the last call made and what it returned
    was_full_core,      \* history: the mode has been FullCore in this block
    cfg,                \* type / const parameters and Config of the runtime
    collator,           \* the collator service: its backend and its last call
    interpreter         \* the revive EVM interpreter: its bytecode and its runs

vars == <<mode, digest, block_weight, inherents_applied, extrinsic_index, pc, cur, last,
          was_full_core, cfg, collator, interpreter>>

\* the variables of the runtime
runtime_vars == <<mode, digest, block_weight, inherents_applied, extrinsic_index, pc, cur,
                  last, was_full_core, cfg>>


\* ------------------------------------------------------------------------
\* Weight arithmetic, block_weight/mod.rs
\* ------------------------------------------------------------------------
MAX_REF_TIME_PER_CORE_NS == 2 * WEIGHT_REF_TIME_PER_SECOND
FULL_CORE_WEIGHT == from_parts(MAX_REF_TIME_PER_CORE_NS, MAX_POV_SIZE)

\* mutant of target_block_weight_with_digest: the total ref_time has no 6 s ceiling
target_block_weight_with_digest_no_ceiling(d) ==
    LET core_info == find_core_info(d) IN
    IF core_info = None THEN FULL_CORE_WEIGHT
    ELSE
      LET target_blocks == cfg.TargetBlockRate
          number_of_cores == core_info[1].number_of_cores
      IN
      IF number_of_cores = 0 \/ target_blocks = 0 THEN FULL_CORE_WEIGHT
      ELSE
        LET total_ref_time ==
                saturating_mul_u64(number_of_cores, MAX_REF_TIME_PER_CORE_NS)
            ref_time_per_block ==
                Min(saturating_div_u64(total_ref_time, target_blocks),
                    MAX_REF_TIME_PER_CORE_NS)
            total_pov_size == saturating_mul_u64(number_of_cores, MAX_POV_SIZE)
            proof_size_per_block ==
                Min(saturating_div_u64(total_pov_size, target_blocks), MAX_POV_SIZE)
        IN from_parts(ref_time_per_block, proof_size_per_block)

\* mutant of target_block_weight_with_digest: the proof_size of a block is not
\* limited to one core
target_block_weight_with_digest_uncapped_proof_size(d) ==
    LET core_info == find_core_info(d) IN
    IF core_info = None THEN FULL_CORE_WEIGHT
    ELSE
      LET target_blocks == cfg.TargetBlockRate
          number_of_cores == core_info[1].number_of_cores
      IN
      IF number_of_cores = 0 \/ target_blocks = 0 THEN FULL_CORE_WEIGHT
      ELSE
        LET total_ref_time ==
                Min(saturating_mul_u64(number_of_cores, MAX_REF_TIME_PER_CORE_NS),
                    WEIGHT_REF_TIME_PER_SECOND * 6)
            ref_time_per_block ==
                Min(saturating_div_u64(total_ref_time, target_blocks),
                    MAX_REF_TIME_PER_CORE_NS)
            total_pov_size == saturating_mul_u64(number_of_cores, MAX_POV_SIZE)
            proof_size_per_block ==
                saturating_div_u64(total_pov_size, target_blocks)
        IN from_parts(ref_time_per_block, proof_size_per_block)

\* mutant of target_block_weight_with_digest: the ref_time of a block is not
\* limited to one core
target_block_weight_with_digest_uncapped_ref_time(d) ==
    LET core_info == find_core_info(d) IN
    IF core_info = None THEN FULL_CORE_WEIGHT
    ELSE
      LET target_blocks == cfg.TargetBlockRate
          number_of_cores == core_info[1].number_of_cores
      IN
      IF number_of_cores = 0 \/ target_blocks = 0 THEN FULL_CORE_WEIGHT
      ELSE
        LET total_ref_time ==
                Min(saturating_mul_u64(number_of_cores, MAX_REF_TIME_PER_CORE_NS),
                    WEIGHT_REF_TIME_PER_SECOND * 6)
            ref_time_per_block ==
                saturating_div_u64(total_ref_time, target_blocks)
            total_pov_size == saturating_mul_u64(number_of_cores, MAX_POV_SIZE)
            proof_size_per_block ==
                Min(saturating_div_u64(total_pov_size, target_blocks), MAX_POV_SIZE)
        IN from_parts(ref_time_per_block, proof_size_per_block)

\* mutant of target_block_weight_with_digest: a CoreInfo without cores is not
\* treated as missing
target_block_weight_with_digest_no_cores_unchecked(d) ==
    LET core_info == find_core_info(d) IN
    IF core_info = None THEN FULL_CORE_WEIGHT
    ELSE
      LET target_blocks == cfg.TargetBlockRate
          number_of_cores == core_info[1].number_of_cores
      IN
      IF target_blocks = 0 THEN FULL_CORE_WEIGHT
      ELSE
        LET total_ref_time ==
                Min(saturating_mul_u64(number_of_cores, MAX_REF_TIME_PER_CORE_NS),
                    WEIGHT_REF_TIME_PER_SECOND * 6)
            ref_time_per_block ==
                Min(saturating_div_u64(total_ref_time, target_blocks),
                    MAX_REF_TIME_PER_CORE_NS)
            total_pov_size == saturating_mul_u64(number_of_cores, MAX_POV_SIZE)
            proof_size_per_block ==
                Min(saturating_div_u64(total_pov_size, target_blocks), MAX_POV_SIZE)
        IN from_parts(ref_time_per_block, proof_size_per_block)

target_block_weight_with_digest(d) ==
    LET core_info == find_core_info(d) IN
    IF core_info = None THEN FULL_CORE_WEIGHT
    ELSE
      LET target_blocks == cfg.TargetBlockRate
          number_of_cores == core_info[1].number_of_cores
      IN
      IF number_of_cores = 0 \/ target_blocks = 0 THEN FULL_CORE_WEIGHT
      ELSE
        LET total_ref_time ==
                Min(saturating_mul_u64(number_of_cores, MAX_REF_TIME_PER_CORE_NS),
                    WEIGHT_REF_TIME_PER_SECOND * 6)
            ref_time_per_block ==
                Min(saturating_div_u64(total_ref_time, target_blocks),
                    MAX_REF_TIME_PER_CORE_NS)
            total_pov_size == saturating_mul_u64(number_of_cores, MAX_POV_SIZE)
            proof_size_per_block ==
                Min(saturating_div_u64(total_pov_size, target_blocks), MAX_POV_SIZE)
        IN from_parts(ref_time_per_block, proof_size_per_block)

is_first_block_in_core_with_digest(d) ==
    LET bi == find_bundle_info(d) IN
    IF bi = None THEN FALSE ELSE bi[1].index = 0

\* frame_system::remaining_block_weight().consumed(): the total over the classes
consumed(bw) ==
    saturating_add(saturating_add(bw["Normal"], bw["Operational"]), bw["Mandatory"])

block_weight_over_target_block_weight(d, bw) ==
    any_gt(consumed(bw), target_block_weight_with_digest(d))

register_extra_weight_unchecked(bw, w, class) ==
    [bw EXCEPT ![class] = saturating_add(@, w)]

\* mutant of MaxParachainBlockWeight_get: the position in the core is not checked
MaxParachainBlockWeight_get_any_block ==
    LET target_block_weight == target_block_weight_with_digest(digest) IN
    IF ~inherents_applied THEN FULL_CORE_WEIGHT
    ELSE IF mode = None THEN FULL_CORE_WEIGHT
    ELSE IF mode[1].kind \in {"FullCore", "PotentialFullCore"} THEN FULL_CORE_WEIGHT
    ELSE target_block_weight

\* mutant of MaxParachainBlockWeight_get: the stored mode decides also while the
\* inherents are not yet applied
MaxParachainBlockWeight_get_ignores_inherents ==
    LET target_block_weight == target_block_weight_with_digest(digest)
        maybe_full_core_weight ==
            IF is_first_block_in_core_with_digest(digest)
            THEN FULL_CORE_WEIGHT ELSE target_block_weight
    IN
    IF mode = None THEN maybe_full_core_weight
    ELSE IF mode[1].kind \in {"FullCore", "PotentialFullCore"} THEN FULL_CORE_WEIGHT
    ELSE target_block_weight

\* Get<Weight> for MaxParachainBlockWeight
MaxParachainBlockWeight_get ==
    LET target_block_weight == target_block_weight_with_digest(digest)
        maybe_full_core_weight ==
            IF is_first_block_in_core_with_digest(digest)
            THEN FULL_CORE_WEIGHT ELSE target_block_weight
    IN
    IF ~inherents_applied THEN maybe_full_core_weight
    ELSE IF mode = None THEN maybe_full_core_weight
    ELSE IF mode[1].kind \in {"FullCore", "PotentialFullCore"} THEN FULL_CORE_WEIGHT
    ELSE target_block_weight

\* ------------------------------------------------------------------------
\* max_parachain_block_weight.rs: the module of the pre-inherent hook
\* ------------------------------------------------------------------------
mpbw_target_block_weight_with_digest(target_blocks, d) ==
    LET core_info == find_core_info(d) IN
    IF core_info = None THEN FULL_CORE_WEIGHT
    ELSE
      LET number_of_cores == core_info[1].number_of_cores IN
      IF number_of_cores = 0 \/ target_blocks = 0 THEN FULL_CORE_WEIGHT
      ELSE
        LET total_ref_time == saturating_mul_u64(number_of_cores, MAX_REF_TIME_PER_CORE_NS)
            ref_time_per_block ==
                Min(saturating_div_u64(total_ref_time, target_blocks),
                    MAX_REF_TIME_PER_CORE_NS)
            total_pov_size == saturating_mul_u64(number_of_cores, MAX_POV_SIZE)
            proof_size_per_block == saturating_div_u64(total_pov_size, target_blocks)
        IN from_parts(ref_time_per_block, proof_size_per_block)

mpbw_block_weight_over_target_block_weight(d, bw) ==
    any_gt(consumed(bw), mpbw_target_block_weight_with_digest(cfg.TargetBlockRate, d))

\* mutant of mpbw_get: a digest without BundleInfo counts as the first block of
\* its core
mpbw_get_first_without_bundle(target_blocks) ==
    LET target_block_weight == mpbw_target_block_weight_with_digest(target_blocks, digest)
        maybe_full_core_weight ==
            IF find_bundle_info(digest) = None \/ is_first_block_in_core_with_digest(digest)
            THEN FULL_CORE_WEIGHT
            ELSE target_block_weight
    IN
    IF ~inherents_applied THEN maybe_full_core_weight
    ELSE IF mode = None THEN maybe_full_core_weight
    ELSE IF mode[1].kind \in {"FullCore", "PotentialFullCore"} THEN FULL_CORE_WEIGHT
    ELSE target_block_weight

\* MaxParachainBlockWeight::get::<T>(target_blocks) of max_parachain_block_weight.rs
mpbw_get(target_blocks) ==
    LET target_block_weight == mpbw_target_block_weight_with_digest(target_blocks, digest)
        maybe_full_core_weight ==
            IF is_first_block_in_core_with_digest(digest)
            THEN FULL_CORE_WEIGHT
            ELSE target_block_weight
    IN
    IF ~inherents_applied THEN maybe_full_core_weight
    ELSE IF mode = None THEN maybe_full_core_weight
    ELSE IF mode[1].kind \in {"FullCore", "PotentialFullCore"} THEN FULL_CORE_WEIGHT
    ELSE target_block_weight

\* mutant of pre_inherents: the digest item is deposited, the mode is not stored
pre_inherents_digest_only(m, d, bw) ==
    IF mpbw_block_weight_over_target_block_weight(d, bw)
    THEN [mode |-> m, digest |-> deposit_log(d, UseFullCore), block_weight |-> bw]
    ELSE [mode |-> m, digest |-> d, block_weight |-> bw]

\* MaxBlockWeightHooks::pre_inherents
pre_inherents(m, d, bw) ==
    IF mpbw_block_weight_over_target_block_weight(d, bw)
    THEN [mode |-> Some(FullCore), digest |-> deposit_log(d, UseFullCore),
          block_weight |-> bw]
    ELSE [mode |-> m, digest |-> d, block_weight |-> bw]

\* ------------------------------------------------------------------------
\* Transaction extension, block_weight/transaction_extension.rs
\* ------------------------------------------------------------------------
\* the target weight of the class of the extrinsic
target_weight_of(info, d) ==
    LET max_total == cfg.BlockWeights.max_total[info.class] IN
    IF max_total # None THEN max_total[1]
    ELSE saturating_sub(target_block_weight_with_digest(d), cfg.BlockWeights.base_block)

\* mutant of announced_weight: the encoded length is not counted
announced_weight_without_len(info, len) == info.total_weight

\* total_weight plus the encoded length on proof_size
announced_weight(info, len) ==
    saturating_add(info.total_weight, from_parts(0, len))

\* mutant of transaction_index_of: an inherent has a transaction index too
transaction_index_of_inherents_too(ia, ei) == Some(unwrap_or_default(ei))

\* `is_not_inherent.then(|| extrinsic_index)`
transaction_index_of(ia, ei) == IF ia THEN Some(unwrap_or_default(ei)) ELSE None

\* mutant of is_over_target: compares with >= instead of >
is_over_target_gte(info, len, target_weight) ==
    LET a == announced_weight(info, len) IN
    a.ref_time >= target_weight.ref_time \/ a.proof_size >= target_weight.proof_size

\* does the extrinsic announce more than the target weight of its class
is_over_target(info, len, target_weight) ==
    any_gt(announced_weight(info, len), target_weight)

\* outcome of a handler: what it returns and the storage it leaves
Outcome(ok, refund, m, d, bw) ==
    [ok |-> ok, refund |-> refund, mode |-> m, digest |-> d, block_weight |-> bw]

\* mutant of pre_validate_FullCore: the arm deposits UseFullCore once more
pre_validate_FullCore_deposits(m, d, bw) ==
    Outcome(TRUE, zero, m, deposit_log(d, UseFullCore), bw)

\* `BlockWeightMode::FullCore => {}` of pre_validate_extrinsic
pre_validate_FullCore(m, d, bw) == Outcome(TRUE, zero, m, d, bw)

\* mutant of pre_validate_over_limit: the overrun rejects the extrinsic
pre_validate_over_limit_rejects(m, d, bw) == Outcome(FALSE, zero, m, d, bw)

\* the `if block_weight_over_limit` branch of pre_validate_extrinsic
pre_validate_over_limit(m, d, bw) ==
    Outcome(TRUE, zero, Some(FullCore), deposit_log(d, UseFullCore),
            IF ~is_first_block_in_core_with_digest(d)
            THEN register_extra_weight_unchecked(bw, FULL_CORE_WEIGHT, "Mandatory")
            ELSE bw)

\* mutant of may_enable_potential_full_core: the position in the core is not checked
may_enable_potential_full_core_any_block(info, transaction_index, first_transaction_index, d) ==
    LET class_allowed ==
            IF cfg.ONLY_OPERATIONAL THEN info.class = "Operational" ELSE TRUE
    IN /\ saturating_sub_u64(unwrap_or_default(transaction_index),
                             unwrap_or_default(first_transaction_index))
              < cfg.MAX_TRANSACTION_TO_CONSIDER
       /\ class_allowed

\* mutant of may_enable_potential_full_core: ONLY_OPERATIONAL excludes the Normal
\* class only
may_enable_potential_full_core_not_normal(info, transaction_index, first_transaction_index, d) ==
    LET class_allowed ==
            IF cfg.ONLY_OPERATIONAL THEN info.class # "Normal" ELSE TRUE
    IN /\ saturating_sub_u64(unwrap_or_default(transaction_index),
                             unwrap_or_default(first_transaction_index))
              < cfg.MAX_TRANSACTION_TO_CONSIDER
       /\ is_first_block_in_core_with_digest(d)
       /\ class_allowed

\* condition under which an extrinsic above the target enables PotentialFullCore
may_enable_potential_full_core(info, transaction_index, first_transaction_index, d) ==
    LET class_allowed ==
            IF cfg.ONLY_OPERATIONAL THEN info.class = "Operational" ELSE TRUE
    IN /\ saturating_sub_u64(unwrap_or_default(transaction_index),
                             unwrap_or_default(first_transaction_index))
              < cfg.MAX_TRANSACTION_TO_CONSIDER
       /\ is_first_block_in_core_with_digest(d)
       /\ class_allowed

\* mutant of pre_validate_exhausts_resources: the rejection clears the storage value
pre_validate_exhausts_resources_clears(m, d, bw) == Outcome(FALSE, zero, None, d, bw)

\* `return Err(InvalidTransaction::ExhaustsResources)`: `mutate` still writes
\* back the value `get_or_insert_with` left in the storage
pre_validate_exhausts_resources(m, d, bw) == Outcome(FALSE, zero, m, d, bw)

\* the PotentialFullCore | FractionOfCore arm of pre_validate_extrinsic
pre_validate_not_FullCore(info, len, current_mode, transaction_index, ext_index, m, d, bw) ==
    LET first_transaction_index == current_mode.first_transaction_index
        \* debug_assert!(!is_potential) is stated as C4_NoPotentialFullCoreAtEntry;
        \* a build without debug assertions goes on as below
        is_potential == current_mode.kind = "PotentialFullCore"
        block_weight_over_limit ==
            ext_index = 0 /\ block_weight_over_target_block_weight(d, bw)
        target_weight == target_weight_of(info, d)
    IN
    IF block_weight_over_limit
    THEN pre_validate_over_limit(m, d, bw)
    ELSE IF is_over_target(info, len, target_weight)
    THEN
      IF may_enable_potential_full_core(info, transaction_index, first_transaction_index, d)
      THEN Outcome(TRUE, zero,
                   Some(PotentialFullCore(or(first_transaction_index, transaction_index),
                                          target_weight)),
                   d, bw)
      ELSE pre_validate_exhausts_resources(m, d, bw)
    ELSE \* both the `else if is_potential` and the `else` branch store the same mode
      Outcome(TRUE, zero,
              Some(FractionOfCore(or(first_transaction_index, transaction_index))),
              d, bw)

pre_validate_extrinsic(info, len, m, d, bw) ==
    LET is_not_inherent == inherents_applied
        ext_index == unwrap_or_default(extrinsic_index)
        transaction_index == transaction_index_of(is_not_inherent, extrinsic_index)
        \* mode.get_or_insert_with
        m1 == IF m = None THEN Some(FractionOfCore(transaction_index)) ELSE m
        current_mode == m1[1]
    IN
    IF current_mode.kind = "FullCore"
    THEN pre_validate_FullCore(m1, d, bw)
    ELSE pre_validate_not_FullCore(info, len, current_mode, transaction_index,
                                   ext_index, m1, d, bw)

\* mutant of post_dispatch_FullCore: the mode falls back to FractionOfCore
post_dispatch_FullCore_resets(m, d, bw) ==
    Outcome(TRUE,
            saturating_sub(cfg.WeightInfo.max_weight, cfg.WeightInfo.full_core),
            Some(FractionOfCore(None)), d, bw)

\* u64 subtraction that wraps around instead of saturating
wrapping_sub_u64(a, b) == (a - b) % (U64_MAX + 1)

\* mutant of post_dispatch_FullCore: the refund is computed with a wrapping subtraction
post_dispatch_FullCore_wrapping(m, d, bw) ==
    Outcome(TRUE,
            from_parts(wrapping_sub_u64(cfg.WeightInfo.max_weight.ref_time,
                                        cfg.WeightInfo.full_core.ref_time),
                       wrapping_sub_u64(cfg.WeightInfo.max_weight.proof_size,
                                        cfg.WeightInfo.full_core.proof_size)),
            m, d, bw)

\* the FullCore arm of post_dispatch_extrinsic
post_dispatch_FullCore(m, d, bw) ==
    Outcome(TRUE,
            saturating_sub(cfg.WeightInfo.max_weight, cfg.WeightInfo.full_core),
            m, d, bw)

\* mutant of post_dispatch_FractionOfCore: a call that escalates to FullCore
\* refunds as the FullCore arm does
post_dispatch_FractionOfCore_refund_by_outcome(m, d, bw) ==
    LET target_block_weight == target_block_weight_with_digest(d)
        is_above_limit == any_gt(consumed(bw), target_block_weight)
    IN
    IF is_above_limit
    THEN Outcome(TRUE,
                 saturating_sub(cfg.WeightInfo.max_weight, cfg.WeightInfo.full_core),
                 Some(FullCore), deposit_log(d, UseFullCore),
                 IF ~is_first_block_in_core_with_digest(d)
                 THEN register_extra_weight_unchecked(bw, FULL_CORE_WEIGHT, "Mandatory")
                 ELSE bw)
    ELSE Outcome(TRUE,
                 saturating_sub(cfg.WeightInfo.max_weight,
                                cfg.WeightInfo.stays_fraction_of_core),
                 m, d, bw)

\* mutant of post_dispatch_FractionOfCore: the consumed weight is compared with
\* the weight of the full core
post_dispatch_FractionOfCore_full_core_limit(m, d, bw) ==
    LET is_above_limit == any_gt(consumed(bw), FULL_CORE_WEIGHT)
        refund == saturating_sub(cfg.WeightInfo.max_weight,
                                 cfg.WeightInfo.stays_fraction_of_core)
    IN
    IF is_above_limit
    THEN Outcome(TRUE, refund, Some(FullCore), deposit_log(d, UseFullCore),
                 IF ~is_first_block_in_core_with_digest(d)
                 THEN register_extra_weight_unchecked(bw, FULL_CORE_WEIGHT, "Mandatory")
                 ELSE bw)
    ELSE Outcome(TRUE, refund, m, d, bw)

\* the FractionOfCore arm of post_dispatch_extrinsic
post_dispatch_FractionOfCore(m, d, bw) ==
    LET target_block_weight == target_block_weight_with_digest(d)
        is_above_limit == any_gt(consumed(bw), target_block_weight)
        refund == saturating_sub(cfg.WeightInfo.max_weight,
                                 cfg.WeightInfo.stays_fraction_of_core)
    IN
    IF is_above_limit
    THEN Outcome(TRUE, refund, Some(FullCore), deposit_log(d, UseFullCore),
                 IF ~is_first_block_in_core_with_digest(d)
                 THEN register_extra_weight_unchecked(bw, FULL_CORE_WEIGHT, "Mandatory")
                 ELSE bw)
    ELSE Outcome(TRUE, refund, m, d, bw)

\* mutant of post_dispatch_PotentialFullCore: FullCore is stored without the digest item
post_dispatch_PotentialFullCore_no_digest(info, md, d, bw) ==
    LET extrinsic_class_weight == bw[info.class] IN
    IF any_gt(extrinsic_class_weight, md.target_weight)
    THEN Outcome(TRUE, zero, Some(FullCore), d, bw)
    ELSE Outcome(TRUE, zero, Some(FractionOfCore(md.first_transaction_index)), d, bw)

\* mutant of post_dispatch_PotentialFullCore: first_transaction_index is not carried over
post_dispatch_PotentialFullCore_drops_index(info, md, d, bw) ==
    LET extrinsic_class_weight == bw[info.class] IN
    IF any_gt(extrinsic_class_weight, md.target_weight)
    THEN Outcome(TRUE, zero, Some(FullCore), deposit_log(d, UseFullCore), bw)
    ELSE Outcome(TRUE, zero, Some(FractionOfCore(None)), d, bw)

\* mutant of post_dispatch_PotentialFullCore: FullCore only when the class weight
\* exceeds the target weight in every dimension
post_dispatch_PotentialFullCore_all_dimensions(info, md, d, bw) ==
    LET extrinsic_class_weight == bw[info.class] IN
    IF /\ extrinsic_class_weight.ref_time > md.target_weight.ref_time
       /\ extrinsic_class_weight.proof_size > md.target_weight.proof_size
    THEN Outcome(TRUE, zero, Some(FullCore), deposit_log(d, UseFullCore), bw)
    ELSE Outcome(TRUE, zero, Some(FractionOfCore(md.first_transaction_index)), d, bw)

\* mutant of post_dispatch_PotentialFullCore: a class weight within the target
\* leaves the mode as it is
post_dispatch_PotentialFullCore_stays(info, md, d, bw) ==
    LET extrinsic_class_weight == bw[info.class] IN
    IF any_gt(extrinsic_class_weight, md.target_weight)
    THEN Outcome(TRUE, zero, Some(FullCore), deposit_log(d, UseFullCore), bw)
    ELSE Outcome(TRUE, zero, Some(md), d, bw)

\* the PotentialFullCore arm of post_dispatch_extrinsic
post_dispatch_PotentialFullCore(info, md, d, bw) ==
    LET extrinsic_class_weight == bw[info.class] IN
    IF any_gt(extrinsic_class_weight, md.target_weight)
    THEN Outcome(TRUE, zero, Some(FullCore), deposit_log(d, UseFullCore), bw)
    ELSE Outcome(TRUE, zero, Some(FractionOfCore(md.first_transaction_index)), d, bw)

\* mutant of post_dispatch_extrinsic: a missing mode is handled as FractionOfCore
post_dispatch_extrinsic_None_as_FractionOfCore(info, m, d, bw) ==
    IF m = None THEN post_dispatch_FractionOfCore(Some(FractionOfCore(None)), d, bw)
    ELSE IF m[1].kind = "FullCore" THEN post_dispatch_FullCore(m, d, bw)
    ELSE IF m[1].kind = "FractionOfCore" THEN post_dispatch_FractionOfCore(m, d, bw)
    ELSE post_dispatch_PotentialFullCore(info, m[1], d, bw)

post_dispatch_extrinsic(info, m, d, bw) ==
    IF m = None THEN Outcome(TRUE, zero, m, d, bw)
    ELSE IF m[1].kind = "FullCore" THEN post_dispatch_FullCore(m, d, bw)
    ELSE IF m[1].kind = "FractionOfCore" THEN post_dispatch_FractionOfCore(m, d, bw)
    ELSE post_dispatch_PotentialFullCore(info, m[1], d, bw)

\* `Ok(weight_refund.saturating_add(extra_refund))` of post_dispatch_details
post_dispatch_details_refund(weight_refund, extra_refund) ==
    saturating_add(weight_refund, extra_refund)

\* TransactionExtension::weight
weight == cfg.WeightInfo.max_weight

\* ------------------------------------------------------------------------
\* Inputs
\* ------------------------------------------------------------------------
TargetBlockRates == {2}
ExtrinsicClasses == DispatchClasses
\* total_weight and encoded length of an extrinsic
Announcements ==
    { [total_weight |-> from_parts(1, 1), len |-> 0],
      [total_weight |-> from_parts(3, 1), len |-> 0],
      [total_weight |-> from_parts(1, 1), len |-> 2] }
\* weight the inner extensions register for one dispatched extrinsic
ActualWeights == {from_parts(1, 1), from_parts(3, 3)}
\* weight on_initialize consumed on top of the base block weight
OnInitializeWeights == {zero, from_parts(3, 1)}

DispatchInfo(class, total_weight) == [class |-> class, total_weight |-> total_weight]
NoInfo == [class |-> "Mandatory", total_weight |-> zero]

\* the digest the node hands to the block: no item at all, or one core with
\* the block first (index 0) or second (index 1) in it
InitialDigests ==
    { <<>>,
      <<CoreInfoItem(1), BundleInfoItem(0)>>,
      <<CoreInfoItem(1), BundleInfoItem(1)>> }

\* Config::BlockWeights: max_total per class and base_block
\* (Normal has a limit of its own, the other classes fall back to the target
\* block weight less the base block weight)
BlockWeightsConfigs ==
    { [max_total |-> [c \in DispatchClasses |->
                         IF c = "Normal" THEN Some(from_parts(2, 2)) ELSE None],
       base_block |-> from_parts(1, 0)] }

\* Config::WeightInfo: block_weight_tx_extension_{max_weight, full_core, stays_fraction_of_core}
WeightInfos ==
    { [max_weight |-> from_parts(3, 3), full_core |-> from_parts(1, 1),
       stays_fraction_of_core |-> from_parts(2, 2)] }

Configs ==
    [ TargetBlockRate : TargetBlockRates,
      MAX_TRANSACTION_TO_CONSIDER : {MaxWindow},
      ONLY_OPERATIONAL : BOOLEAN,
      BlockWeights : BlockWeightsConfigs,
      WeightInfo : WeightInfos,
      \* is the hook registered as PreInherents of the runtime
      hook_registered : BOOLEAN ]

Call(op, result, info, len, before, registered, refund) ==
    [op |-> op, result |-> result, info |-> info, len |-> len,
     before |-> before, registered |-> registered, refund |-> refund,
     inner |-> "none"]

\* what the inner extension returned to the call: "Ok", "Err", or "none" when
\* the call did not invoke it
inner_returned(call, inner_ok) == [call EXCEPT !.inner = IF inner_ok THEN "Ok" ELSE "Err"]

\* weight registered as Mandatory between two block weights
registered_between(bw0, bw1) == saturating_sub(bw1["Mandatory"], bw0["Mandatory"])

\* the collator service is not part of the runtime
NoCollator == [op |-> "none"]
NoInterpreter == [op |-> "none"]

\* ------------------------------------------------------------------------
\* Init: the block is initialized, on_initialize has run
\* ------------------------------------------------------------------------
Init ==
    /\ cfg \in Configs
    /\ collator = NoCollator
    /\ interpreter = NoInterpreter
    /\ mode = None
    /\ digest \in InitialDigests
    /\ \E w \in OnInitializeWeights :
          block_weight = [c \in DispatchClasses |->
                             IF c = "Mandatory"
                             THEN saturating_add(cfg.BlockWeights.base_block, w)
                             ELSE zero]
    /\ inherents_applied = FALSE
    /\ extrinsic_index = Some(0)
    /\ pc = "on_initialize"
    /\ cur = NoInfo
    /\ last = Call("initialize", "Ok", NoInfo, 0, None, zero, zero)
    /\ was_full_core = FALSE

\* ------------------------------------------------------------------------
\* Actions
\* ------------------------------------------------------------------------
\* the history of the mode, kept by every step
History == was_full_core' = (was_full_core \/ mode' = Some(FullCore))

\* ------------------------------------------------------------------------
\* the PreInherents hook of the runtime
PreInherents ==
    /\ pc = "on_initialize"
    /\ cfg.hook_registered
    /\ LET out == pre_inherents(mode, digest, block_weight) IN
       /\ mode' = out.mode
       /\ digest' = out.digest
       /\ block_weight' = out.block_weight
       /\ last' = Call("pre_inherents", "Ok", NoInfo, 0, mode,
                       registered_between(block_weight, out.block_weight), zero)
    /\ pc' = "idle"
    /\ UNCHANGED <<inherents_applied, extrinsic_index, cur, cfg>>
    /\ History
    /\ UNCHANGED <<collator, interpreter>>

\* a runtime that did not register the hook
NoPreInherents ==
    /\ pc = "on_initialize"
    /\ ~cfg.hook_registered
    /\ pc' = "idle"
    /\ last' = Call("no_pre_inherents", "Ok", NoInfo, 0, mode, zero, zero)
    /\ UNCHANGED <<mode, digest, block_weight, inherents_applied, extrinsic_index, cur, cfg>>
    /\ History
    /\ UNCHANGED <<collator, interpreter>>

\* frame_system::note_inherents_applied
NoteInherentsApplied ==
    /\ pc = "idle"
    /\ ~inherents_applied
    /\ inherents_applied' = TRUE
    /\ last' = Call("note_inherents_applied", "Ok", NoInfo, 0, mode, zero, zero)
    /\ UNCHANGED <<mode, digest, block_weight, extrinsic_index, pc, cur, cfg>>
    /\ History
    /\ UNCHANGED <<collator, interpreter>>

\* mutant of ValidateWith: the inner extension runs before pre_validate_extrinsic
ValidateWith_inner_first(op, next_pc, info, len, inner_ok) ==
    LET out == IF inner_ok
               THEN pre_validate_extrinsic(info, len, mode, digest, block_weight)
               ELSE Outcome(TRUE, zero, mode, digest, block_weight)
        call == Call(op,
                     IF ~inner_ok THEN "InnerError"
                     ELSE IF ~out.ok THEN "ExhaustsResources" ELSE "Ok",
                     info, len, mode,
                     registered_between(block_weight, out.block_weight), zero)
    IN
    /\ mode' = out.mode
    /\ digest' = out.digest
    /\ block_weight' = out.block_weight
    /\ last' = inner_returned(call, inner_ok)
    /\ IF out.ok /\ inner_ok
       THEN pc' = next_pc /\ cur' = info
       ELSE pc' = "idle" /\ cur' = NoInfo
    /\ UNCHANGED <<inherents_applied, extrinsic_index, cfg>>

\* TransactionExtension::validate, bare_validate_and_prepare:
\* pre_validate_extrinsic, then the inner extension
ValidateWith(op, next_pc, info, len, inner_ok) ==
    LET out == pre_validate_extrinsic(info, len, mode, digest, block_weight)
        call == Call(op,
                     IF ~out.ok THEN "ExhaustsResources"
                     ELSE IF ~inner_ok THEN "InnerError" ELSE "Ok",
                     info, len, mode,
                     registered_between(block_weight, out.block_weight), zero)
    IN
    \* `Self::pre_validate_extrinsic(info, len)?` returns before the inner call
    /\ mode' = out.mode
    /\ digest' = out.digest
    /\ block_weight' = out.block_weight
    /\ last' = IF out.ok THEN inner_returned(call, inner_ok) ELSE call
    /\ IF out.ok /\ inner_ok
       THEN pc' = next_pc /\ cur' = info
       ELSE pc' = "idle" /\ cur' = NoInfo
    /\ UNCHANGED <<inherents_applied, extrinsic_index, cfg>>

Validate ==
    /\ pc = "idle"
    /\ inherents_applied
    /\ unwrap_or_default(extrinsic_index) < MaxExtrinsics
    /\ \E class \in ExtrinsicClasses, a \in Announcements, inner_ok \in BOOLEAN :
          ValidateWith("validate", "validated",
                       DispatchInfo(class, a.total_weight), a.len, inner_ok)
    /\ History
    /\ UNCHANGED <<collator, interpreter>>

\* mutant of Prepare: a failing inner extension makes prepare clear the mode
Prepare_clears ==
    /\ pc = "validated"
    /\ \E inner_ok \in BOOLEAN :
          /\ last' = inner_returned(Call("prepare",
                                          IF inner_ok THEN "Ok" ELSE "InnerError",
                                          cur, 0, mode, zero, zero), inner_ok)
          /\ IF inner_ok
             THEN pc' = "prepared" /\ cur' = cur /\ mode' = mode
             ELSE pc' = "idle" /\ cur' = NoInfo /\ mode' = None
    /\ UNCHANGED <<digest, block_weight, inherents_applied, extrinsic_index, cfg>>
    /\ History
    /\ UNCHANGED <<collator, interpreter>>

\* TransactionExtension::prepare: the inner extension only
Prepare ==
    /\ pc = "validated"
    /\ \E inner_ok \in BOOLEAN :
          /\ last' = inner_returned(Call("prepare",
                                          IF inner_ok THEN "Ok" ELSE "InnerError",
                                          cur, 0, mode, zero, zero), inner_ok)
          /\ IF inner_ok
             THEN pc' = "prepared" /\ cur' = cur
             ELSE pc' = "idle" /\ cur' = NoInfo
    /\ UNCHANGED <<mode, digest, block_weight, inherents_applied, extrinsic_index, cfg>>
    /\ History
    /\ UNCHANGED <<collator, interpreter>>

\* TransactionExtension::bare_validate: the inner extension only
BareValidate ==
    /\ pc = "idle"
    /\ \E inner_ok \in BOOLEAN :
          last' = inner_returned(Call("bare_validate",
                                       IF inner_ok THEN "Ok" ELSE "InnerError",
                                       NoInfo, 0, mode, zero, zero), inner_ok)
    /\ UNCHANGED <<mode, digest, block_weight, inherents_applied, extrinsic_index, pc,
                   cur, cfg>>
    /\ History
    /\ UNCHANGED <<collator, interpreter>>

BareValidateAndPrepare ==
    /\ pc = "idle"
    /\ unwrap_or_default(extrinsic_index) < MaxExtrinsics
    /\ \E class \in ExtrinsicClasses, a \in Announcements, inner_ok \in BOOLEAN :
          ValidateWith("bare_validate_and_prepare", "bare_prepared",
                       DispatchInfo(class, a.total_weight), a.len, inner_ok)
    /\ History
    /\ UNCHANGED <<collator, interpreter>>

\* mutant of PostDispatchWith: post_dispatch_extrinsic runs before the inner
\* extension has registered the weight of the extrinsic
PostDispatchWith_controller_first(op, w, inner_ok) ==
    LET out == post_dispatch_extrinsic(cur, mode, digest, block_weight)
        bw1 == [out.block_weight EXCEPT ![cur.class] = saturating_add(@, w)]
    IN
    /\ IF inner_ok
       THEN /\ mode' = out.mode
            /\ digest' = out.digest
            /\ block_weight' = bw1
            /\ extrinsic_index' = Some(unwrap_or_default(extrinsic_index) + 1)
            /\ last' = inner_returned(Call(op, "Ok", cur, 0, mode,
                                            registered_between(block_weight,
                                                               out.block_weight),
                                            out.refund), TRUE)
       ELSE /\ last' = inner_returned(Call(op, "InnerError", cur, 0, mode, zero, zero),
                                       FALSE)
            /\ UNCHANGED <<mode, digest, block_weight, extrinsic_index>>
    /\ pc' = "idle"
    /\ cur' = NoInfo
    /\ UNCHANGED <<inherents_applied, cfg>>

\* TransactionExtension::post_dispatch_details, bare_post_dispatch: the inner
\* extension (which has registered the weight w of the extrinsic), then
\* post_dispatch_extrinsic; the extrinsic is then noted as applied
PostDispatchWith(op, w, inner_ok) ==
    LET bw1 == [block_weight EXCEPT ![cur.class] = saturating_add(@, w)]
        out == post_dispatch_extrinsic(cur, mode, digest, bw1)
    IN
    /\ IF inner_ok
       THEN /\ mode' = out.mode
            /\ digest' = out.digest
            /\ block_weight' = out.block_weight
            /\ extrinsic_index' = Some(unwrap_or_default(extrinsic_index) + 1)
            /\ last' = inner_returned(Call(op, "Ok", cur, 0, mode,
                                            registered_between(bw1, out.block_weight),
                                            out.refund), TRUE)
       ELSE \* Inner::post_dispatch_details(..)? returned the error
            /\ last' = inner_returned(Call(op, "InnerError", cur, 0, mode, zero, zero),
                                       FALSE)
            /\ UNCHANGED <<mode, digest, block_weight, extrinsic_index>>
    /\ pc' = "idle"
    /\ cur' = NoInfo
    /\ UNCHANGED <<inherents_applied, cfg>>

PostDispatchDetails ==
    /\ pc = "prepared"
    /\ \E w \in ActualWeights, inner_ok \in BOOLEAN :
          PostDispatchWith("post_dispatch_details", w, inner_ok)
    /\ History
    /\ UNCHANGED <<collator, interpreter>>

BarePostDispatch ==
    /\ pc = "bare_prepared"
    /\ \E w \in ActualWeights, inner_ok \in BOOLEAN :
          PostDispatchWith("bare_post_dispatch", w, inner_ok)
    /\ History
    /\ UNCHANGED <<collator, interpreter>>

\* the block ends
FinalizeBlock ==
    /\ pc = "idle"
    /\ pc' = "finalized"
    /\ last' = Call("finalize_block", "Ok", NoInfo, 0, mode, zero, zero)
    /\ UNCHANGED <<mode, digest, block_weight, inherents_applied, extrinsic_index, cur, cfg>>
    /\ History
    /\ UNCHANGED <<collator, interpreter>>

Next ==
    \/ PreInherents
    \/ NoPreInherents
    \/ NoteInherentsApplied
    \/ Validate
    \/ Prepare
    \/ PostDispatchDetails
    \/ BareValidate
    \/ BareValidateAndPrepare
    \/ BarePostDispatch
    \/ FinalizeBlock

Spec == Init /\ [][Next]_vars

\* ------------------------------------------------------------------------
\* The weight queries applied to states drawn from bounded sets
\* ------------------------------------------------------------------------
\* digests with and without CoreInfo (0..MaxCores cores) and BundleInfo (first
\* or second block of the core)
QueryDigests ==
    {<<>>} \cup {<<BundleInfoItem(i)>> : i \in 0..1}
           \cup {<<CoreInfoItem(n)>> : n \in 0..MaxCores}
           \cup {<<BundleInfoItem(i), CoreInfoItem(n)>> : i \in 0..1, n \in 0..MaxCores}

is_kind_PotentialFullCore(m) == m # None /\ m[1].kind = "PotentialFullCore"

QueryModes ==
    {None, Some(FullCore), Some(FractionOfCore(None)),
     Some(PotentialFullCore(None, from_parts(1, 2)))}

QueryConfigs ==
    [ TargetBlockRate : 0..MaxTargetBlocks,
      MAX_TRANSACTION_TO_CONSIDER : {MaxWindow},
      ONLY_OPERATIONAL : {FALSE},
      BlockWeights : BlockWeightsConfigs,
      WeightInfo : WeightInfos,
      hook_registered : {TRUE} ]

\* a block at any point of its life: PotentialFullCore only on the first block
\* of a core, UseFullCore in the digest with FullCore
QueryInit ==
    /\ cfg \in QueryConfigs
    /\ collator = NoCollator
    /\ interpreter = NoInterpreter
    /\ mode \in QueryModes
    /\ \E d \in QueryDigests :
          /\ is_kind_PotentialFullCore(mode) => is_first_block_in_core_with_digest(d)
          /\ digest = IF mode = Some(FullCore) THEN deposit_log(d, UseFullCore) ELSE d
    /\ block_weight = [c \in DispatchClasses |->
                          IF c = "Mandatory" THEN cfg.BlockWeights.base_block ELSE zero]
    /\ inherents_applied \in BOOLEAN
    /\ extrinsic_index = Some(0)
    /\ pc = "query"
    /\ cur = NoInfo
    /\ last = Call("initialize", "Ok", NoInfo, 0, None, zero, zero)
    /\ was_full_core = (mode = Some(FullCore))

\* MaxParachainBlockWeight::target_block_weight; the value returned is kept in
\* last.refund
TargetBlockWeight ==
    /\ pc = "query"
    /\ last' = Call("target_block_weight", "Ok", NoInfo, 0, mode, zero,
                    target_block_weight_with_digest(digest))
    /\ UNCHANGED <<mode, digest, block_weight, inherents_applied, extrinsic_index, pc, cur, cfg>>
    /\ History
    /\ UNCHANGED <<collator, interpreter>>

\* <MaxParachainBlockWeight as Get<Weight>>::get; the value returned is kept in
\* last.refund
MaxBlockWeight ==
    /\ pc = "query"
    /\ last' = Call("get", "Ok", NoInfo, 0, mode, zero, MaxParachainBlockWeight_get)
    /\ UNCHANGED <<mode, digest, block_weight, inherents_applied, extrinsic_index, pc, cur, cfg>>
    /\ History
    /\ UNCHANGED <<collator, interpreter>>

\* MaxParachainBlockWeight::get of max_parachain_block_weight.rs, asked with
\* the target block rate of the runtime; the value returned is kept in last.refund
OldMaxBlockWeight ==
    /\ pc = "query"
    /\ last' = Call("mpbw_get", "Ok", NoInfo, 0, mode, zero, mpbw_get(cfg.TargetBlockRate))
    /\ UNCHANGED <<mode, digest, block_weight, inherents_applied, extrinsic_index, pc, cur, cfg>>
    /\ History
    /\ UNCHANGED <<collator, interpreter>>

QueryNext ==
    \/ TargetBlockWeight
    \/ MaxBlockWeight
    \/ OldMaxBlockWeight

QuerySpec == QueryInit /\ [][QueryNext]_vars

\* ------------------------------------------------------------------------
\* post_dispatch applied to states and weight configurations drawn from
\* bounded sets
\* ------------------------------------------------------------------------
RefundWeights == {from_parts(r, p) : r \in 0..MaxBranchWeight, p \in 0..MaxBranchWeight}

RefundWeightInfos ==
    [max_weight : RefundWeights, full_core : RefundWeights,
     stays_fraction_of_core : RefundWeights]

RefundConfigs ==
    [ TargetBlockRate : TargetBlockRates,
      MAX_TRANSACTION_TO_CONSIDER : {MaxWindow},
      ONLY_OPERATIONAL : {FALSE},
      BlockWeights : BlockWeightsConfigs,
      WeightInfo : RefundWeightInfos,
      hook_registered : {TRUE} ]

\* refund returned by the inner extension
InnerRefunds == {zero, from_parts(1, 0), from_parts(U64_MAX, 1)}

\* the inner extension has returned Ok(weight_refund) to post_dispatch_details:
\* the weight of the extrinsic is registered, the mode is any mode
RefundInit ==
    /\ cfg \in RefundConfigs
    /\ collator = NoCollator
    /\ interpreter = NoInterpreter
    /\ mode \in QueryModes
    /\ \E d \in InitialDigests :
          /\ is_kind_PotentialFullCore(mode) => is_first_block_in_core_with_digest(d)
          /\ digest = IF mode = Some(FullCore) THEN deposit_log(d, UseFullCore) ELSE d
    /\ \E w \in OnInitializeWeights :
          block_weight = [c \in DispatchClasses |->
                             IF c = "Mandatory"
                             THEN saturating_add(cfg.BlockWeights.base_block, w)
                             ELSE IF c = "Operational" THEN w ELSE zero]
    /\ inherents_applied = FALSE
    /\ extrinsic_index = Some(0)
    /\ pc = "dispatched"
    /\ cur = DispatchInfo("Operational", from_parts(1, 1))
    /\ \E weight_refund \in InnerRefunds :
          last = inner_returned(Call("inner_post_dispatch_details", "Ok", cur, 0, mode,
                                     zero, weight_refund), TRUE)
    /\ was_full_core = (mode = Some(FullCore))

\* post_dispatch_extrinsic alone; its refund is kept in last.refund
RefundPostDispatchExtrinsic ==
    /\ pc = "dispatched"
    /\ LET out == post_dispatch_extrinsic(cur, mode, digest, block_weight) IN
       /\ mode' = out.mode
       /\ digest' = out.digest
       /\ block_weight' = out.block_weight
       /\ last' = Call("post_dispatch_extrinsic", "Ok", cur, 0, mode,
                       registered_between(block_weight, out.block_weight), out.refund)
    /\ pc' = "refunded"
    /\ UNCHANGED <<inherents_applied, extrinsic_index, cur, cfg>>
    /\ History
    /\ UNCHANGED <<collator, interpreter>>

\* post_dispatch_details after the inner extension returned last.refund
RefundPostDispatchDetails ==
    /\ pc = "dispatched"
    /\ LET out == post_dispatch_extrinsic(cur, mode, digest, block_weight) IN
       /\ mode' = out.mode
       /\ digest' = out.digest
       /\ block_weight' = out.block_weight
       /\ last' = inner_returned(Call("post_dispatch_details", "Ok", cur, 0, mode,
                                      registered_between(block_weight, out.block_weight),
                                      post_dispatch_details_refund(last.refund,
                                                                   out.refund)), TRUE)
    /\ pc' = "refunded"
    /\ UNCHANGED <<inherents_applied, extrinsic_index, cur, cfg>>
    /\ History
    /\ UNCHANGED <<collator, interpreter>>

RefundNext ==
    \/ RefundPostDispatchExtrinsic
    \/ RefundPostDispatchDetails

RefundSpec == RefundInit /\ [][RefundNext]_vars

\* ------------------------------------------------------------------------
\* Collator service, client/collator/src/service.rs
\* ------------------------------------------------------------------------
\* what BlockBackend::block_status returns: Ok(status) or Err
BlockStatusResults ==
    {"Queued", "InChainWithState", "InChainPruned", "KnownBad", "Unknown", "Err"}

Hashes == 1..NumHashes

\* mutant of check_block_status: a pruned block is good to build on
check_block_status_pruned(status, number) ==
    status \in {"InChainWithState", "InChainPruned"}

\* CollatorService::check_block_status; the number of the header only selects
\* the log line of an unknown block
check_block_status(status, number) ==
    CASE status = "Queued" -> FALSE
      [] status = "InChainWithState" -> TRUE
      [] status = "InChainPruned" -> FALSE
      [] status = "KnownBad" -> FALSE
      [] status = "Unknown" -> IF number = 0 THEN FALSE ELSE FALSE
      [] status = "Err" -> FALSE

\* a collator service over a backend that reports any status for each hash;
\* the runtime is at the start of a block
CollatorInit ==
    /\ interpreter = NoInterpreter
    /\ \E backend \in [Hashes -> BlockStatusResults] :
          collator = [op |-> "new", backend |-> backend, hash |-> 1, number |-> 0,
                      result |-> FALSE]
    /\ cfg = CHOOSE c \in Configs : TRUE
    /\ mode = None
    /\ digest = <<>>
    /\ block_weight = [c \in DispatchClasses |-> zero]
    /\ inherents_applied = FALSE
    /\ extrinsic_index = Some(0)
    /\ pc = "on_initialize"
    /\ cur = NoInfo
    /\ last = Call("initialize", "Ok", NoInfo, 0, None, zero, zero)
    /\ was_full_core = FALSE

\* ServiceInterface::check_block_status(hash, header)
CheckBlockStatus ==
    /\ \E hash \in Hashes, number \in 0..MaxBlockNumber :
          collator' = [collator EXCEPT
                          !.op = "check_block_status",
                          !.hash = hash,
                          !.number = number,
                          !.result = check_block_status(collator.backend[hash], number)]
    /\ UNCHANGED <<runtime_vars, interpreter>>

CollatorNext ==
    \/ CheckBlockStatus

CollatorSpec == CollatorInit /\ [][CollatorNext]_vars





\* ------------------------------------------------------------------------
\* build_multi_block_collation, client/collator/src/service.rs
\* ------------------------------------------------------------------------
\* polkadot_primitives::UMP_SEPARATOR: the empty message
UMP_SEPARATOR == <<>>

\* Iterator::take_while(|m| m != UMP_SEPARATOR)
RECURSIVE take_while_not_separator(_)
take_while_not_separator(ms) ==
    IF ms = <<>> THEN <<>>
    ELSE IF Head(ms) = UMP_SEPARATOR THEN <<>>
    ELSE <<Head(ms)>> \o take_while_not_separator(Tail(ms))

\* Iterator::rev
rev(ms) == [i \in 1..Len(ms) |-> ms[Len(ms) + 1 - i]]

elements(ms) == {ms[i] : i \in 1..Len(ms)}

\* what fetch_collation_info and api_version return: Err(_), Ok(None), Ok(Some(v))
FetchErr == [tag |-> "Err"]
FetchNone == [tag |-> "None"]
FetchSome(v) == [tag |-> "Some", value |-> v]

\* the local variables of build_multi_block_collation before the loop
collation_start ==
    [failed |-> FALSE,
     api_version |-> 0,
     upward_messages |-> <<>>,
     upward_message_signals |-> {},
     horizontal_messages |-> <<>>,
     new_validation_code |-> None,
     processed_downward_messages |-> 0,
     hrmp_watermark |-> None,
     head_data |-> None]

\* mutant of collation_step: the validation code of a later block replaces the
\* one of an earlier block
collation_step_last_code(acc, fetched, parent_api_version) ==
    IF acc.failed THEN acc
    ELSE IF fetched.tag # "Some" THEN [acc EXCEPT !.failed = TRUE]
    ELSE IF parent_api_version.tag # "Some" THEN [acc EXCEPT !.failed = TRUE]
    ELSE
      LET collation_info == fetched.value IN
      [failed |-> FALSE,
       api_version |-> parent_api_version.value,
       upward_messages |->
           acc.upward_messages \o take_while_not_separator(collation_info.upward_messages),
       upward_message_signals |->
           acc.upward_message_signals
               \cup elements(take_while_not_separator(rev(collation_info.upward_messages))),
       horizontal_messages |->
           acc.horizontal_messages \o collation_info.horizontal_messages,
       new_validation_code |->
           or(collation_info.new_validation_code, acc.new_validation_code),
       processed_downward_messages |->
           acc.processed_downward_messages + collation_info.processed_downward_messages,
       hrmp_watermark |-> Some(collation_info.hrmp_watermark),
       head_data |-> Some(collation_info.head_data)]

\* one turn of `for block in &blocks`; `?` leaves the function with None
collation_step(acc, fetched, parent_api_version) ==
    IF acc.failed THEN acc
    ELSE IF fetched.tag # "Some" THEN [acc EXCEPT !.failed = TRUE]
    ELSE IF parent_api_version.tag # "Some" THEN [acc EXCEPT !.failed = TRUE]
    ELSE
      LET collation_info == fetched.value IN
      [failed |-> FALSE,
       api_version |-> parent_api_version.value,
       upward_messages |->
           acc.upward_messages \o take_while_not_separator(collation_info.upward_messages),
       upward_message_signals |->
           acc.upward_message_signals
               \cup elements(take_while_not_separator(rev(collation_info.upward_messages))),
       horizontal_messages |->
           acc.horizontal_messages \o collation_info.horizontal_messages,
       new_validation_code |->
           or(acc.new_validation_code, collation_info.new_validation_code),
       \* a u32; the counts of the model stay far below its limit
       processed_downward_messages |->
           acc.processed_downward_messages + collation_info.processed_downward_messages,
       hrmp_watermark |-> Some(collation_info.hrmp_watermark),
       head_data |-> Some(collation_info.head_data)]

\* the loop over the blocks, from block i on
RECURSIVE collation_loop(_, _, _, _)
collation_loop(acc, fetched, parent_api_version, i) ==
    IF i > Len(fetched) THEN acc
    ELSE collation_loop(collation_step(acc, fetched[i], parent_api_version),
                        fetched, parent_api_version, i + 1)

\* ParachainBlockData::as_v0 as its caller describes it: there is no v0
\* encoding of several blocks
as_v0(number_of_blocks) ==
    IF number_of_blocks = 1 THEN Some(number_of_blocks) ELSE None

\* the orders in which a HashSet may hand out its elements
Enumerations(S) ==
    {order \in [1..Cardinality(S) -> S] :
        \A i, j \in 1..Cardinality(S) : order[i] = order[j] => i = j}

\* the signals of all blocks, as the loop collects them
upward_message_signals_of(fetched, parent_api_version) ==
    LET acc == collation_loop(collation_start, fetched, parent_api_version, 1) IN
    IF acc.failed THEN {} ELSE acc.upward_message_signals

\* mutant of build_multi_block_collation: the bound of the horizontal messages
\* is not enforced
build_multi_block_collation_unbounded(proof_ok, parent_api_version, fetched, signal_order) ==
    IF ~proof_ok THEN None
    ELSE
      LET acc == collation_loop(collation_start, fetched, parent_api_version, 1) IN
      IF acc.failed THEN None
      ELSE IF acc.api_version < 3 /\ as_v0(Len(fetched)) = None THEN None
      ELSE
        LET upward_messages ==
                IF acc.upward_message_signals # {}
                THEN acc.upward_messages \o <<UMP_SEPARATOR>> \o signal_order
                ELSE acc.upward_messages
        IN
        IF Len(upward_messages) > MAX_UPWARD_MESSAGE_NUM THEN None
        ELSE IF acc.hrmp_watermark = None \/ acc.head_data = None THEN None
        ELSE Some([upward_messages |-> upward_messages,
                   new_validation_code |-> acc.new_validation_code,
                   processed_downward_messages |-> acc.processed_downward_messages,
                   horizontal_messages |-> acc.horizontal_messages,
                   hrmp_watermark |-> acc.hrmp_watermark[1],
                   head_data |-> acc.head_data[1],
                   block_data |-> Len(fetched)])

\* CollatorService::build_multi_block_collation; proof_ok: the storage proof
\* can be compacted; fetched: what fetch_collation_info returns for each
\* block; signal_order: the order in which the HashSet hands out the signals
build_multi_block_collation(proof_ok, parent_api_version, fetched, signal_order) ==
    IF ~proof_ok THEN None
    ELSE
      LET acc == collation_loop(collation_start, fetched, parent_api_version, 1) IN
      IF acc.failed THEN None
      ELSE IF acc.api_version < 3 /\ as_v0(Len(fetched)) = None THEN None
      ELSE
        LET upward_messages ==
                IF acc.upward_message_signals # {}
                THEN acc.upward_messages \o <<UMP_SEPARATOR>> \o signal_order
                ELSE acc.upward_messages
        IN
        IF Len(upward_messages) > MAX_UPWARD_MESSAGE_NUM THEN None
        ELSE IF Len(acc.horizontal_messages) > MAX_HORIZONTAL_MESSAGE_NUM THEN None
        ELSE IF acc.hrmp_watermark = None \/ acc.head_data = None THEN None
        ELSE Some([upward_messages |-> upward_messages,
                   new_validation_code |-> acc.new_validation_code,
                   processed_downward_messages |-> acc.processed_downward_messages,
                   horizontal_messages |-> acc.horizontal_messages,
                   hrmp_watermark |-> acc.hrmp_watermark[1],
                   head_data |-> acc.head_data[1],
                   block_data |-> Len(fetched)])

\* the upward messages a runtime hands out: regular messages, then at most
\* one separator followed by signals
UpwardMessageLists ==
    { <<>>,
      << <<1>> >>,
      << <<1>>, UMP_SEPARATOR >>,
      << UMP_SEPARATOR, <<2>> >>,
      << <<1>>, UMP_SEPARATOR, <<2>> >>,
      << <<2>>, UMP_SEPARATOR, <<1>>, <<2>> >> }

\* what the runtime answers for a block: no answer, or the parts of its
\* CollationInfo that differ from block to block
RuntimeAnswers ==
    {FetchErr, FetchNone}
        \cup {FetchSome([upward_messages |-> u, horizontal |-> h, code |-> c]) :
                  u \in UpwardMessageLists, h \in 0..2, c \in BOOLEAN}

\* the CollationInfo of the i-th block of the list: its head data, watermark,
\* messages and validation code are its own
collation_info_of(i, answer) ==
    IF answer.tag # "Some" THEN answer
    ELSE FetchSome(
           [upward_messages |-> answer.value.upward_messages,
            horizontal_messages |-> [k \in 1..answer.value.horizontal |-> 10 * i + k],
            new_validation_code |-> IF answer.value.code THEN Some(i) ELSE None,
            processed_downward_messages |-> i,
            hrmp_watermark |-> i,
            head_data |-> i])

\* the runtime api version of CollectCollationInfo at the parent
ParentApiVersions == {FetchErr, FetchNone, FetchSome(2), FetchSome(3)}

\* a collator service that has built nothing yet; the service keeps nothing
\* from one call to the next, so one call is followed; the runtime is at the
\* start of a block
CollationInit ==
    /\ interpreter = NoInterpreter
    /\ collator = [op |-> "new", proof_ok |-> TRUE, parent_api_version |-> FetchNone,
                   fetched |-> <<>>, result |-> None]
    /\ cfg = CHOOSE c \in Configs : TRUE
    /\ mode = None
    /\ digest = <<>>
    /\ block_weight = [c \in DispatchClasses |-> zero]
    /\ inherents_applied = FALSE
    /\ extrinsic_index = Some(0)
    /\ pc = "on_initialize"
    /\ cur = NoInfo
    /\ last = Call("initialize", "Ok", NoInfo, 0, None, zero, zero)
    /\ was_full_core = FALSE

\* the call of build_multi_block_collation on the given blocks
BuildWith(op, proof_ok, parent_api_version, fetched) ==
    \E signal_order \in
           Enumerations(upward_message_signals_of(fetched, parent_api_version)) :
       collator' = [op |-> op, proof_ok |-> proof_ok,
                    parent_api_version |-> parent_api_version,
                    fetched |-> fetched,
                    result |-> build_multi_block_collation(
                                   proof_ok, parent_api_version, fetched, signal_order)]

\* CollatorService::build_multi_block_collation(parent_header, blocks, proof)
BuildMultiBlockCollation ==
    /\ collator.op = "new"
    /\ \E n \in 0..MaxBlocks, proof_ok \in BOOLEAN,
          parent_api_version \in ParentApiVersions :
          \E answers \in [1..n -> RuntimeAnswers] :
             BuildWith("build_multi_block_collation", proof_ok, parent_api_version,
                       [i \in 1..n |-> collation_info_of(i, answers[i])])
    /\ UNCHANGED <<runtime_vars, interpreter>>

\* ServiceInterface::build_collation(parent_header, _, candidate)
BuildCollation ==
    /\ collator.op = "new"
    /\ \E proof_ok \in BOOLEAN, parent_api_version \in ParentApiVersions,
          answer \in RuntimeAnswers :
          \* vec![candidate.block], candidate.proof
          BuildWith("build_collation", proof_ok, parent_api_version,
                    <<collation_info_of(1, answer)>>)
    /\ UNCHANGED <<runtime_vars, interpreter>>

CollationNext ==
    \/ BuildMultiBlockCollation
    \/ BuildCollation

CollationSpec == CollationInit /\ [][CollationNext]_vars

\* ------------------------------------------------------------------------
\* The EVM interpreter loops, substrate/frame/revive/src/vm/evm.rs
\* ------------------------------------------------------------------------
\* Opcodes of the instruction table. The table is the same for both loops;
\* its instructions act on the interpreter through revm's Jumps interface
\* (opcode, relative_jump, absolute_jump, read_u8, is_valid_legacy_jump).
STOP == 0
ADD == 1
MUL == 2
SUB == 3
JUMP == 86
JUMPDEST == 91
PUSH1 == 96
Opcodes == {STOP, ADD, MUL, SUB, JUMP, JUMPDEST, PUSH1}
\* words of the stack wrap at this value (scaled from 2^256)
WORD_MODULUS == 256

\* ExtBytecode: the byte at a position; the bytecode is padded with STOP
byte_at(bytecode, at) == IF at < Len(bytecode) THEN bytecode[at + 1] ELSE STOP

\* the jump table of the bytecode: the positions of the JUMPDEST opcodes that
\* are not the immediate of a PUSH1
RECURSIVE analyze_legacy(_, _)
analyze_legacy(bytecode, at) ==
    IF at >= Len(bytecode) THEN {}
    ELSE IF bytecode[at + 1] = JUMPDEST
         THEN {at} \cup analyze_legacy(bytecode, at + 1)
         ELSE IF bytecode[at + 1] = PUSH1
              THEN analyze_legacy(bytecode, at + 2)
              ELSE analyze_legacy(bytecode, at + 1)

\* Jumps
opcode(i) == byte_at(i.bytecode, i.pc)
read_u8(i) == byte_at(i.bytecode, i.pc)
relative_jump(i, offset) == [i EXCEPT !.pc = @ + offset]
absolute_jump(i, offset) == [i EXCEPT !.pc = offset]
is_valid_legacy_jump(i, offset) == offset \in analyze_legacy(i.bytecode, 0)

\* the stack; its top is its last element
push(i, word) == [i EXCEPT !.stack = Append(@, word)]
popn(i, n) == [i EXCEPT !.stack = SubSeq(@, 1, Len(@) - n)]
top(i, n) == i.stack[Len(i.stack) + 1 - n]

\* ControlFlow<Halt, ()> of an instruction, with the interpreter it leaves
Continue(i) == [halt |-> None, interpreter |-> i]
Break(h, i) == [halt |-> Some(h), interpreter |-> i]

\* Interpreter::new: the program counter at the first byte, an empty stack;
\* the gas meter holds one unit for each instruction it pays for
Interpreter_new(bytecode, gas_limit) ==
    [bytecode |-> bytecode, pc |-> 0, stack |-> <<>>, gas_left |-> gas_limit,
     opcodes |-> <<>>]

binary_op(i, word) ==
    IF Len(i.stack) < 2 THEN Break("StackUnderflow", i)
    ELSE Continue(push(popn(i, 2), word % WORD_MODULUS))

\* table[opcode](interpreter): the instruction charges its gas, then acts
instruction(op, i0) ==
    IF i0.gas_left = 0 THEN Break("OutOfGas", i0)
    ELSE LET i == [i0 EXCEPT !.gas_left = @ - 1] IN
         CASE op = STOP -> Break("Stop", i)
           [] op = ADD -> binary_op(i, IF Len(i.stack) < 2 THEN 0
                                       ELSE top(i, 1) + top(i, 2))
           [] op = MUL -> binary_op(i, IF Len(i.stack) < 2 THEN 0
                                       ELSE top(i, 1) * top(i, 2))
           [] op = SUB -> binary_op(i, IF Len(i.stack) < 2 THEN 0
                                       ELSE top(i, 1) - top(i, 2))
           [] op = JUMP ->
                IF Len(i.stack) < 1 THEN Break("StackUnderflow", i)
                ELSE IF ~is_valid_legacy_jump(i, top(i, 1))
                     THEN Break("InvalidJump", i)
                     ELSE Continue(absolute_jump(popn(i, 1), top(i, 1)))
           [] op = JUMPDEST -> Continue(i)
           [] op = PUSH1 -> Continue(relative_jump(push(i, read_u8(i)), 1))
           [] OTHER -> Break("OpcodeNotFound", i)

\* the opcode about to run and the program counter it was read at: what
\* enter_opcode hands to the tracer, and the same history kept of run_plain
enter_opcode(i, op) == [i EXCEPT !.opcodes = Append(@, <<i.pc, op>>)]

\* run_plain: the instruction runs, then the program counter moves on by one
RECURSIVE run_plain(_)
run_plain(i) ==
    LET op == opcode(i)
        r == instruction(op, enter_opcode(i, op))
    IN  IF r.halt # None THEN r
        ELSE run_plain(relative_jump(r.interpreter, 1))

\* run_plain_with_tracing: the tracer is told of the opcode, the program
\* counter moves on by one, then the instruction runs
RECURSIVE run_plain_with_tracing(_)
run_plain_with_tracing(i) ==
    LET op == opcode(i)
        r == instruction(op, relative_jump(enter_opcode(i, op), 1))
    IN  IF r.halt # None THEN r
        ELSE run_plain_with_tracing(r.interpreter)

\* call: a fresh interpreter runs the loop the tracer asks for; the result is
\* the halt of the loop (kept here with the opcodes that ran)
evm_call(bytecode, gas_limit, use_opcode_tracing) ==
    LET interp == Interpreter_new(bytecode, gas_limit)
        r == IF use_opcode_tracing THEN run_plain_with_tracing(interp)
             ELSE run_plain(interp)
    IN  [halt |-> r.halt[1], opcodes |-> r.interpreter.opcodes]

Bytecodes == UNION {[1..n -> Opcodes] : n \in 0..MaxCodeLen}

\* a contract's bytecode, called by nobody yet; the runtime is at the start
\* of a block
EvmInit ==
    /\ \E bytecode \in Bytecodes :
          interpreter = [op |-> "new", bytecode |-> bytecode,
                         plain |-> None, traced |-> None]
    /\ collator = NoCollator
    /\ cfg = CHOOSE c \in Configs : TRUE
    /\ mode = None
    /\ digest = <<>>
    /\ block_weight = [c \in DispatchClasses |-> zero]
    /\ inherents_applied = FALSE
    /\ extrinsic_index = Some(0)
    /\ pc = "on_initialize"
    /\ cur = NoInfo
    /\ last = Call("initialize", "Ok", NoInfo, 0, None, zero, zero)
    /\ was_full_core = FALSE

\* call with opcode tracing disabled
CallWithoutTracing ==
    /\ interpreter.op # "none"
    /\ interpreter.plain = None
    /\ interpreter' = [interpreter EXCEPT
                          !.op = "call",
                          !.plain = Some(evm_call(interpreter.bytecode, MaxGas, FALSE))]
    /\ UNCHANGED <<runtime_vars, collator>>

\* call with opcode tracing enabled
CallWithTracing ==
    /\ interpreter.op # "none"
    /\ interpreter.traced = None
    /\ interpreter' = [interpreter EXCEPT
                          !.op = "call",
                          !.traced = Some(evm_call(interpreter.bytecode, MaxGas, TRUE))]
    /\ UNCHANGED <<runtime_vars, collator>>

EvmNext ==
    \/ CallWithoutTracing
    \/ CallWithTracing

EvmSpec == EvmInit /\ [][EvmNext]_vars

\* ------------------------------------------------------------------------
\* Properties
\* ------------------------------------------------------------------------
ValidateOps == {"validate", "bare_validate_and_prepare"}
PostDispatchOps == {"post_dispatch_details", "bare_post_dispatch"}

is_kind(m, k) == m # None /\ m[1].kind = k
has_first_transaction_index(m) ==
    is_kind(m, "FractionOfCore") \/ is_kind(m, "PotentialFullCore")

\* the last call ran pre_validate_extrinsic / post_dispatch_extrinsic
pre_validate_ran == last.op \in ValidateOps
post_dispatch_ran == last.op \in PostDispatchOps /\ last.result = "Ok"

\* C1: once the Mode Store holds FullCore, no later call of the block stores
\* any other value.
C1_FullCoreAbsorbing ==
    [][mode = Some(FullCore) => mode' = Some(FullCore)]_vars

\* pre_validate and post_dispatch have both run on FullCore
C1_Witness ==
    /\ mode = Some(FullCore)
    /\ last.before = Some(FullCore)
    /\ post_dispatch_ran
    /\ unwrap_or_default(extrinsic_index) >= 2


\* C2: the digest never holds more than one UseFullCore item, and holds exactly
\* one at the end of a block in which the mode has been FullCore.
C2_OneUseFullCore ==
    /\ CountUseFullCore(digest) <= 1
    /\ (pc = "finalized" /\ was_full_core) => CountUseFullCore(digest) = 1

\* a block that went to FullCore while applying an extrinsic has ended
C2_Witness ==
    /\ pc = "finalized"
    /\ was_full_core
    /\ CountUseFullCore(digest) = 1
    /\ unwrap_or_default(extrinsic_index) >= 1

\* C3: between any two calls the digest holds UseFullCore if and only if the
\* Mode Store is FullCore: the item is deposited by the call that stores
\* FullCore, not earlier and not later.
C3_DepositWithTransition ==
    (CountUseFullCore(digest) >= 1) <=> (mode = Some(FullCore))

\* a post_dispatch has just moved the mode to FullCore
C3_Witness ==
    /\ post_dispatch_ran
    /\ last.before # None
    /\ last.before # Some(FullCore)
    /\ mode = Some(FullCore)
    /\ CountUseFullCore(digest) = 1

\* C4: PotentialFullCore is never the stored mode at the entry of
\* pre_validate_extrinsic (its debug assertion never fires).
C4_NoPotentialFullCoreAtEntry ==
    pre_validate_ran => ~is_kind(last.before, "PotentialFullCore")

rejected(c) == c.op \in ValidateOps /\ c.result = "ExhaustsResources"

\* C5 as claimed: a pre_validate that rejects with ExhaustsResources leaves the
\* Mode Store, the digest and the registered weight as they were.
C5_RejectionLeavesStoreUntouched ==
    [][rejected(last') =>
          /\ mode' = mode
          /\ digest' = digest
          /\ block_weight' = block_weight]_vars

\* C5 amended: a pre_validate that rejects with ExhaustsResources leaves an
\* initialised Mode Store as it was and initialises a Mode Store that was None
\* to FractionOfCore with the transaction index of the call; it registers no
\* digest item and no weight and does not advance the extrinsic index.
C5_RejectionOnlyInitialisesStore ==
    [][rejected(last') =>
          /\ mode' = IF mode = None
                     THEN Some(FractionOfCore(
                              transaction_index_of(inherents_applied, extrinsic_index)))
                     ELSE mode
          /\ digest' = digest
          /\ block_weight' = block_weight
          /\ extrinsic_index' = extrinsic_index]_vars

\* the first extrinsic the controller sees is a transaction and is rejected
C5_Witness ==
    /\ rejected(last)
    /\ last.before = None
    /\ inherents_applied
    /\ is_kind(mode, "FractionOfCore")

\* C6: outside the first block of a core, a call that moves the Mode Store to
\* FullCore registers FULL_CORE_WEIGHT as Mandatory weight in that call.
C6_FullCoreChargedOutsideFirstBlock ==
    ( /\ ~is_first_block_in_core_with_digest(digest)
      /\ last.op \in {"pre_inherents"} \cup ValidateOps \cup PostDispatchOps
      /\ last.before # Some(FullCore)
      /\ mode = Some(FullCore) )
    => last.registered = FULL_CORE_WEIGHT

\* C7 as claimed: outside the first block of a core the max-weight query never
\* returns more than the target block weight.
C7_QueryAtMostTarget ==
    ~is_first_block_in_core_with_digest(digest)
    => all_lte(MaxParachainBlockWeight_get, target_block_weight_with_digest(digest))

\* C7 amended: outside the first block of a core the max-weight query returns
\* at most the target block weight unless the mode is FullCore and the
\* inherents are applied, where it returns FULL_CORE_WEIGHT.
C7_QueryAtMostTargetUnlessFullCore ==
    ~is_first_block_in_core_with_digest(digest)
    => IF inherents_applied /\ mode = Some(FullCore)
       THEN MaxParachainBlockWeight_get = FULL_CORE_WEIGHT
       ELSE all_lte(MaxParachainBlockWeight_get, target_block_weight_with_digest(digest))

\* a transaction was applied in a later block of a core whose target is below
\* the full core
C7_Witness ==
    /\ ~is_first_block_in_core_with_digest(digest)
    /\ target_block_weight_with_digest(digest) # FULL_CORE_WEIGHT
    /\ inherents_applied
    /\ is_kind(mode, "FractionOfCore")
    /\ last.op = "post_dispatch_details"
    /\ last.result = "Ok"

\* the last call was a pre_validate that did not enter on FullCore and did not
\* take the overrun branch (the only branch of pre_validate that stores FullCore)
pre_validate_weighed ==
    /\ pre_validate_ran
    /\ last.before # Some(FullCore)
    /\ mode # Some(FullCore)

last_is_over_target ==
    any_gt(announced_weight(last.info, last.len), target_weight_of(last.info, digest))

\* C8: outside the first block of a core the Mode Store never holds
\* PotentialFullCore, and a pre_validate that weighs an extrinsic announcing
\* more than the target returns ExhaustsResources.
C8_NoPromotionOutsideFirstBlock ==
    ~is_first_block_in_core_with_digest(digest)
    => /\ ~is_kind(mode, "PotentialFullCore")
       /\ (pre_validate_weighed /\ last_is_over_target)
              => last.result = "ExhaustsResources"

\* an extrinsic above the target was rejected in a later block of a core
C8_Witness ==
    /\ find_bundle_info(digest) # None
    /\ ~is_first_block_in_core_with_digest(digest)
    /\ pre_validate_weighed
    /\ last_is_over_target
    /\ last.result = "ExhaustsResources"

\* C9: a pre_validate of an extrinsic announcing at most the target in both
\* dimensions does not reject and does not leave PotentialFullCore.
C9_WithinTargetAccepted ==
    ( /\ pre_validate_ran
      /\ all_lte(announced_weight(last.info, last.len), target_weight_of(last.info, digest)) )
    => /\ last.result # "ExhaustsResources"
       /\ mode # None
       /\ ~is_kind(mode, "PotentialFullCore")

\* an extrinsic announcing exactly the target in one dimension was accepted on
\* a mode that was still PotentialFullCore
C9_Witness ==
    /\ pre_validate_ran
    /\ all_lte(announced_weight(last.info, last.len), target_weight_of(last.info, digest))
    /\ announced_weight(last.info, last.len).ref_time
           = target_weight_of(last.info, digest).ref_time
    /\ is_kind(last.before, "PotentialFullCore")
    /\ last.result = "Ok"
    /\ is_kind(mode, "FractionOfCore")

\* C10: once a stored mode carries first_transaction_index = Some(i), every
\* FractionOfCore or PotentialFullCore stored later carries the same Some(i).
C10_FirstTransactionIndexStable ==
    [][( /\ has_first_transaction_index(mode)
         /\ mode[1].first_transaction_index # None
         /\ has_first_transaction_index(mode') )
       => mode'[1].first_transaction_index = mode[1].first_transaction_index]_vars

\* the first transaction, applied after one inherent, set PotentialFullCore with
\* its index, and its post_dispatch resolved it to FractionOfCore with that index
C10_Witness ==
    /\ post_dispatch_ran
    /\ is_kind(last.before, "PotentialFullCore")
    /\ last.before[1].first_transaction_index = Some(1)
    /\ mode = Some(FractionOfCore(Some(1)))
    /\ extrinsic_index = Some(2)

\* first_transaction_index of a mode at the entry of pre_validate_extrinsic,
\* after get_or_insert_with
entry_first_transaction_index(m, transaction_index) ==
    IF m = None THEN transaction_index ELSE m[1].first_transaction_index

\* C11: on a first-in-core block, a pre_validate that weighs an extrinsic of an
\* allowed class announcing more than the target inside the window stores
\* PotentialFullCore with target_weight equal to the target of the extrinsic; the
\* post_dispatch of that extrinsic stores FullCore and deposits one UseFullCore
\* if the weight accumulated by the class of the extrinsic exceeds target_weight
\* in any dimension.
C11_PromotionThenResolution ==
    [][/\ ( /\ last'.op \in ValidateOps
            /\ mode # Some(FullCore)
            /\ mode' # Some(FullCore)
            /\ is_first_block_in_core_with_digest(digest)
            /\ is_over_target(last'.info, last'.len, target_weight_of(last'.info, digest))
            /\ (cfg.ONLY_OPERATIONAL => last'.info.class = "Operational")
            /\ LET transaction_index ==
                       transaction_index_of(inherents_applied, extrinsic_index)
               IN saturating_sub_u64(
                      unwrap_or_default(transaction_index),
                      unwrap_or_default(
                          entry_first_transaction_index(mode, transaction_index)))
                      < cfg.MAX_TRANSACTION_TO_CONSIDER )
          => /\ is_kind(mode', "PotentialFullCore")
             /\ mode'[1].target_weight = target_weight_of(last'.info, digest)
             /\ last'.result # "ExhaustsResources"
             /\ digest' = digest
       /\ ( /\ last'.op \in PostDispatchOps
            /\ last'.result = "Ok"
            /\ is_kind(mode, "PotentialFullCore")
            /\ any_gt(block_weight'[cur.class], mode[1].target_weight) )
          => /\ mode' = Some(FullCore)
             /\ CountUseFullCore(digest') = CountUseFullCore(digest) + 1]_vars

\* an extrinsic was promoted to PotentialFullCore on a first-in-core block and
\* its post_dispatch found the weight of its class above the stored target in
\* one dimension only
C11_Witness ==
    /\ is_first_block_in_core_with_digest(digest)
    /\ post_dispatch_ran
    /\ is_kind(last.before, "PotentialFullCore")
    /\ last.before[1].target_weight = target_weight_of(last.info, digest)
    /\ block_weight[last.info.class].ref_time > last.before[1].target_weight.ref_time
    /\ block_weight[last.info.class].proof_size <= last.before[1].target_weight.proof_size
    /\ mode = Some(FullCore)
    /\ CountUseFullCore(digest) = 1

number_of_cores_of(d) == find_core_info(d)[1].number_of_cores

\* C12: the max-weight query returns, with maybe_full = FULL_CORE_WEIGHT on the
\* first block of a core and target_block_weight otherwise: maybe_full while the
\* inherents are not applied, whatever the mode; afterwards FULL_CORE_WEIGHT for
\* FullCore and PotentialFullCore, target_block_weight for FractionOfCore and
\* maybe_full for no mode; the query changes neither the mode nor the digest.
C12_QueryMatchesReference ==
    [][last'.op = "get" =>
          LET target == target_block_weight_with_digest(digest)
              maybe_full == IF is_first_block_in_core_with_digest(digest)
                            THEN from_parts(2 * WEIGHT_REF_TIME_PER_SECOND, MAX_POV_SIZE)
                            ELSE target
          IN
          /\ ~inherents_applied => last'.refund = maybe_full
          /\ (inherents_applied /\ mode = None) => last'.refund = maybe_full
          /\ (inherents_applied /\ (is_kind(mode, "FullCore")
                                       \/ is_kind(mode, "PotentialFullCore")))
                 => last'.refund = from_parts(2 * WEIGHT_REF_TIME_PER_SECOND, MAX_POV_SIZE)
          /\ (inherents_applied /\ is_kind(mode, "FractionOfCore"))
                 => last'.refund = target
          /\ mode' = mode
          /\ digest' = digest]_vars

\* the query was made before the inherents were applied, on the first block of
\* a core whose stored mode is FractionOfCore and whose target is a fraction
C12_Witness ==
    /\ last.op = "get"
    /\ ~inherents_applied
    /\ is_kind(mode, "FractionOfCore")
    /\ is_first_block_in_core_with_digest(digest)
    /\ target_block_weight_with_digest(digest) # FULL_CORE_WEIGHT
    /\ last.refund = FULL_CORE_WEIGHT

\* C13: for n >= 1 cores and t >= 1 target blocks target_block_weight returns
\* ref_time = min(min(n * 2s, 6s) / t, 2s) and
\* proof_size = min(n * MAX_POV_SIZE / t, MAX_POV_SIZE), with integer division;
\* 1 core / 4 blocks gives (2s / 4, MAX_POV_SIZE / 4), 2 cores / 4 blocks gives
\* (1s, 2 * MAX_POV_SIZE / 4), 1 core / 1 block gives FULL_CORE_WEIGHT.
C13_TargetMatchesReference ==
    ( /\ last.op = "target_block_weight"
      /\ find_core_info(digest) # None
      /\ number_of_cores_of(digest) >= 1
      /\ cfg.TargetBlockRate >= 1 )
    => LET n == number_of_cores_of(digest)
           t == cfg.TargetBlockRate
           s == WEIGHT_REF_TIME_PER_SECOND
       IN
       /\ last.refund.ref_time = Min(Min(n * 2 * s, 6 * s) \div t, 2 * s)
       /\ last.refund.proof_size = Min((n * MAX_POV_SIZE) \div t, MAX_POV_SIZE)
       /\ (n = 1 /\ t = 4)
              => last.refund = from_parts((2 * s) \div 4, MAX_POV_SIZE \div 4)
       /\ (n = 2 /\ t = 4)
              => last.refund = from_parts(s, (2 * MAX_POV_SIZE) \div 4)
       /\ (n = 1 /\ t = 1) => last.refund = FULL_CORE_WEIGHT

\* four cores shared by four blocks: the 6 s ceiling decides the ref_time
C13_Witness ==
    /\ last.op = "target_block_weight"
    /\ find_core_info(digest) # None
    /\ number_of_cores_of(digest) = 4
    /\ cfg.TargetBlockRate = 4
    /\ last.refund.ref_time = (6 * WEIGHT_REF_TIME_PER_SECOND) \div 4

\* the last call was target_block_weight with three cores and one target block
three_cores_one_block ==
    /\ last.op = "target_block_weight"
    /\ find_core_info(digest) # None
    /\ number_of_cores_of(digest) = 3
    /\ cfg.TargetBlockRate = 1

\* C14 as claimed: with three cores and a target of one block
\* target_block_weight returns (6 s, 3 * MAX_POV_SIZE).
C14_ThreeCoresOneBlockAllCores ==
    three_cores_one_block
    => last.refund = from_parts(6 * WEIGHT_REF_TIME_PER_SECOND, 3 * MAX_POV_SIZE)

\* C14 amended: with three cores and a target of one block target_block_weight
\* returns the weight of one core, (2 s, MAX_POV_SIZE).
C14_ThreeCoresOneBlockOneCore ==
    three_cores_one_block
    => last.refund = from_parts(2 * WEIGHT_REF_TIME_PER_SECOND, MAX_POV_SIZE)

\* target_block_weight was asked with three cores and one target block
C14_Witness ==
    /\ three_cores_one_block
    /\ last.refund = FULL_CORE_WEIGHT

\* C15: for every digest and every target block rate target_block_weight is at
\* most FULL_CORE_WEIGHT = (2 s, MAX_POV_SIZE) in both dimensions, and so is
\* every value the max-weight query returns.
C15_AtMostOneCore ==
    last.op \in {"target_block_weight", "get"}
    => /\ last.refund.ref_time <= 2 * WEIGHT_REF_TIME_PER_SECOND
       /\ last.refund.proof_size <= MAX_POV_SIZE

\* more cores than target blocks: the block is held to one core
C15_Witness ==
    /\ last.op = "target_block_weight"
    /\ find_core_info(digest) # None
    /\ number_of_cores_of(digest) > cfg.TargetBlockRate
    /\ cfg.TargetBlockRate >= 1
    /\ last.refund = FULL_CORE_WEIGHT

\* the digest or the configuration lacks what the target is computed from
missing_information ==
    \/ find_core_info(digest) = None
    \/ number_of_cores_of(digest) = 0
    \/ cfg.TargetBlockRate = 0

\* C16: target_block_weight returns FULL_CORE_WEIGHT when the digest has no
\* CoreInfo item, when number_of_cores is 0 and when the target block rate is 0;
\* it returns a weight (no division by zero) for every input.
C16_MissingInformationGivesFullCore ==
    last.op = "target_block_weight"
    => /\ last.refund.ref_time \in Nat
       /\ last.refund.proof_size \in Nat
       /\ missing_information => last.refund = FULL_CORE_WEIGHT

\* a CoreInfo item without cores and a target block rate of at least one
C16_Witness ==
    /\ last.op = "target_block_weight"
    /\ find_core_info(digest) # None
    /\ number_of_cores_of(digest) = 0
    /\ cfg.TargetBlockRate >= 1
    /\ last.refund = FULL_CORE_WEIGHT

C18_FullCoreBlockIsFull ==
    ( /\ ~is_first_block_in_core_with_digest(digest)
      /\ mode = Some(FullCore) )
    => /\ all_lte(FULL_CORE_WEIGHT, consumed(block_weight))
       /\ all_lte(MaxParachainBlockWeight_get, consumed(block_weight))

\* index of the extrinsic of the last call, as pre_validate_extrinsic derives it
last_transaction_index == transaction_index_of(inherents_applied, extrinsic_index)

\* distance of the extrinsic of the last call from the first transaction of the
\* block; the first transaction itself and the inherents before it are at 0
gap_from_first_transaction ==
    LET first_transaction_index ==
            entry_first_transaction_index(last.before, last_transaction_index)
    IN IF first_transaction_index = None THEN 0
       ELSE saturating_sub_u64(unwrap_or_default(last_transaction_index),
                               first_transaction_index[1])

\* C19: on a first-in-core block, a pre_validate that weighs an extrinsic of an
\* allowed class announcing more than the target stores PotentialFullCore if
\* and only if the distance of the extrinsic from the first transaction is
\* below MAX_TRANSACTION_TO_CONSIDER, and rejects with ExhaustsResources
\* otherwise.
C19_WindowFromFirstTransaction ==
    ( /\ pre_validate_weighed
      /\ is_first_block_in_core_with_digest(digest)
      /\ last_is_over_target
      /\ (cfg.ONLY_OPERATIONAL => last.info.class = "Operational") )
    => IF gap_from_first_transaction < cfg.MAX_TRANSACTION_TO_CONSIDER
       THEN is_kind(mode, "PotentialFullCore") /\ last.result # "ExhaustsResources"
       ELSE last.result = "ExhaustsResources"

\* the index gap pre_validate_extrinsic computed in the last call
last_index_gap ==
    saturating_sub_u64(
        unwrap_or_default(last_transaction_index),
        unwrap_or_default(entry_first_transaction_index(last.before, last_transaction_index)))

\* C20: with ONLY_OPERATIONAL, a pre_validate that weighs an extrinsic (inherent
\* or transaction) announcing more than the target promotes it to
\* PotentialFullCore only if its class is Operational and rejects a Normal or
\* Mandatory one with ExhaustsResources; without ONLY_OPERATIONAL the decision
\* is the same for every class: promotion on the first block of a core inside
\* the window, rejection otherwise.
C20_OnlyOperational ==
    (pre_validate_weighed /\ last_is_over_target)
    => /\ (cfg.ONLY_OPERATIONAL /\ last.info.class # "Operational")
              => /\ last.result = "ExhaustsResources"
                 /\ mode = IF last.before = None
                           THEN Some(FractionOfCore(last_transaction_index))
                           ELSE last.before
       /\ (cfg.ONLY_OPERATIONAL /\ last.result # "ExhaustsResources")
              => /\ last.info.class = "Operational"
                 /\ is_kind(mode, "PotentialFullCore")
       /\ ~cfg.ONLY_OPERATIONAL
              => ( (last.result # "ExhaustsResources" /\ is_kind(mode, "PotentialFullCore"))
                   <=> ( /\ is_first_block_in_core_with_digest(digest)
                         /\ last_index_gap < cfg.MAX_TRANSACTION_TO_CONSIDER ) )

\* with ONLY_OPERATIONAL a Mandatory inherent announcing more than its target
\* was rejected on the first block of a core
C20_Witness ==
    /\ cfg.ONLY_OPERATIONAL
    /\ pre_validate_weighed
    /\ last_is_over_target
    /\ ~inherents_applied
    /\ last.info.class = "Mandatory"
    /\ is_first_block_in_core_with_digest(digest)
    /\ last.result = "ExhaustsResources"

\* the weight of the branch post_dispatch_extrinsic took on the given mode
branch_weight(m) ==
    IF is_kind(m, "FullCore") THEN cfg.WeightInfo.full_core
    ELSE IF is_kind(m, "FractionOfCore") THEN cfg.WeightInfo.stays_fraction_of_core
    ELSE cfg.WeightInfo.max_weight

\* C21: for every mode and every weight configuration the refund returned by
\* post_dispatch_extrinsic is non-negative and at most the weight the
\* extension pre-charges through weight(), and is zero in every dimension in
\* which the weight of the branch taken is at least that weight.
C21_RefundWithinPreCharge ==
    last.op = "post_dispatch_extrinsic"
    => /\ last.refund.ref_time >= 0
       /\ last.refund.proof_size >= 0
       /\ last.refund.ref_time <= weight.ref_time
       /\ last.refund.proof_size <= weight.proof_size
       /\ (last.before # None
            /\ branch_weight(last.before).ref_time >= weight.ref_time)
              => last.refund.ref_time = 0
       /\ (last.before # None
            /\ branch_weight(last.before).proof_size >= weight.proof_size)
              => last.refund.proof_size = 0

\* post_dispatch ran on FullCore with a branch weight above the pre-charged
\* weight in ref_time and below it in proof_size
C21_Witness ==
    /\ last.op = "post_dispatch_extrinsic"
    /\ last.before = Some(FullCore)
    /\ cfg.WeightInfo.full_core.ref_time > weight.ref_time
    /\ cfg.WeightInfo.full_core.proof_size < weight.proof_size
    /\ last.refund.ref_time = 0
    /\ last.refund.proof_size > 0

\* C23: prepare and bare_validate change neither the Mode Store, the digest
\* nor the registered block weight, whatever the inner extension returns.
C23_PrepareAndBareValidateDelegate ==
    [][last'.op \in {"prepare", "bare_validate"}
       => /\ mode' = mode
          /\ digest' = digest
          /\ block_weight' = block_weight
          /\ extrinsic_index' = extrinsic_index]_vars

\* the inner extension failed in prepare after pre_validate had promoted the
\* extrinsic to PotentialFullCore
C23_Witness ==
    /\ last.op = "prepare"
    /\ last.result = "InnerError"
    /\ is_kind(last.before, "PotentialFullCore")
    /\ mode = last.before

\* C24: check_block_status returns true if and only if the backend reports the
\* block as InChainWithState; it returns false for Queued, InChainPruned,
\* KnownBad, Unknown (whatever the block number) and for an error of the backend.
C24_OnlyInChainWithState ==
    collator.op = "check_block_status"
    => LET status == collator.backend[collator.hash] IN
       /\ collator.result <=> (status = "InChainWithState")
       /\ status \in {"Queued", "InChainPruned", "KnownBad", "Unknown", "Err"}
              => collator.result = FALSE

\* the genesis block is unknown to the backend while another block is in the
\* chain with its state
C24_Witness ==
    /\ collator.op = "check_block_status"
    /\ collator.backend[collator.hash] = "Unknown"
    /\ collator.number = 0
    /\ collator.result = FALSE
    /\ \E h \in Hashes : collator.backend[h] = "InChainWithState"

\* C25: a pre_validate entered with a mode other than FullCore at extrinsic
\* index 0 while the consumed block weight exceeds target_block_weight stores
\* FullCore, deposits one UseFullCore and does not reject, whatever the
\* announced weight, the class and the position in the core; a pre_validate
\* entered with a mode other than FullCore at an extrinsic index >= 1 never
\* stores FullCore.
C25_OverrunBranch ==
    [][/\ ( /\ last'.op \in ValidateOps
            /\ mode # Some(FullCore)
            /\ unwrap_or_default(extrinsic_index) = 0
            /\ any_gt(consumed(block_weight), target_block_weight_with_digest(digest)) )
          => /\ mode' = Some(FullCore)
             /\ CountUseFullCore(digest') = CountUseFullCore(digest) + 1
             /\ last'.result # "ExhaustsResources"
       /\ ( /\ last'.op \in ValidateOps
            /\ mode # Some(FullCore)
            /\ unwrap_or_default(extrinsic_index) >= 1 )
          => /\ mode' # Some(FullCore)
             /\ digest' = digest
             /\ block_weight' = block_weight]_vars

\* without the hook, a Normal transaction announcing more than its target was
\* pre-validated first in a later block of a core whose on_initialize overran
C25_Witness ==
    /\ ~cfg.hook_registered
    /\ find_bundle_info(digest) # None
    /\ ~is_first_block_in_core_with_digest(digest)
    /\ pre_validate_ran
    /\ extrinsic_index = Some(0)
    /\ last.before # Some(FullCore)
    /\ last.info.class = "Normal"
    /\ last_is_over_target
    /\ last.result = "Ok"
    /\ mode = Some(FullCore)
    /\ CountUseFullCore(digest) = 1

\* the block weight post_dispatch_extrinsic found in the step: the weight after
\* the step less what the step registered as Mandatory
weight_found_by_post_dispatch ==
    saturating_sub(consumed(block_weight'), last'.registered)

\* C26: a post_dispatch entered on FractionOfCore stores FullCore and deposits
\* one UseFullCore if the consumed block weight exceeds target_block_weight in
\* any dimension, registering FULL_CORE_WEIGHT as Mandatory when the block is
\* not the first of its core and nothing when it is; otherwise it leaves the
\* mode and the digest as they were and registers no weight.
C26_FractionOfCorePostDispatch ==
    [][( /\ last'.op \in PostDispatchOps
         /\ last'.result = "Ok"
         /\ is_kind(mode, "FractionOfCore") )
       => IF any_gt(weight_found_by_post_dispatch, target_block_weight_with_digest(digest))
          THEN /\ mode' = Some(FullCore)
               /\ digest' = deposit_log(digest, UseFullCore)
               /\ last'.registered = IF is_first_block_in_core_with_digest(digest)
                                      THEN zero ELSE FULL_CORE_WEIGHT
          ELSE /\ mode' = mode
               /\ digest' = digest
               /\ last'.registered = zero]_vars

\* on the first block of a core an extrinsic used more than it announced: the
\* block went over its target in proof_size only, below the full core
C26_Witness ==
    /\ post_dispatch_ran
    /\ is_kind(last.before, "FractionOfCore")
    /\ is_first_block_in_core_with_digest(digest)
    /\ mode = Some(FullCore)
    /\ last.registered = zero
    /\ consumed(block_weight).proof_size > target_block_weight_with_digest(digest).proof_size
    /\ all_lte(consumed(block_weight), FULL_CORE_WEIGHT)

\* C27: a post_dispatch entered on PotentialFullCore stores FractionOfCore with
\* the same first_transaction_index and deposits nothing if the weight of the
\* class of the extrinsic exceeds target_weight in no dimension; in both
\* outcomes the mode stored is FullCore or FractionOfCore.
C27_PotentialFullCoreResolves ==
    [][( /\ last'.op \in PostDispatchOps
         /\ last'.result = "Ok"
         /\ is_kind(mode, "PotentialFullCore") )
       => /\ all_lte(block_weight'[cur.class], mode[1].target_weight)
             => /\ mode' = Some(FractionOfCore(mode[1].first_transaction_index))
                /\ digest' = digest
          /\ is_kind(mode', "FullCore") \/ is_kind(mode', "FractionOfCore")]_vars

\* a promoted transaction stayed within the target of its class, reaching it
\* exactly in one dimension
C27_Witness ==
    /\ post_dispatch_ran
    /\ is_kind(last.before, "PotentialFullCore")
    /\ last.before[1].first_transaction_index # None
    /\ block_weight[last.info.class].ref_time = last.before[1].target_weight.ref_time
    /\ mode = Some(FractionOfCore(last.before[1].first_transaction_index))
    /\ CountUseFullCore(digest) = 0

\* the refund post_dispatch_extrinsic owes for the mode found at entry
refund_for_entry_mode(m) ==
    LET w_max == cfg.WeightInfo.max_weight
        w_branch == IF is_kind(m, "FullCore") THEN cfg.WeightInfo.full_core
                    ELSE cfg.WeightInfo.stays_fraction_of_core
    IN IF is_kind(m, "FullCore") \/ is_kind(m, "FractionOfCore")
       THEN from_parts(Max(w_max.ref_time - w_branch.ref_time, 0),
                       Max(w_max.proof_size - w_branch.proof_size, 0))
       ELSE from_parts(0, 0)

\* C28: the refund of post_dispatch_extrinsic depends only on the mode found at
\* entry: W_max - W_full_core for FullCore, W_max - W_stays_fraction_of_core for
\* FractionOfCore (also when the call escalates to FullCore) and zero for
\* PotentialFullCore; post_dispatch_details returns the refund of the inner
\* extension plus this value, the addition saturating.
C28_RefundByEntryMode ==
    [][/\ last'.op = "post_dispatch_extrinsic"
          => last'.refund = refund_for_entry_mode(mode)
       /\ (last'.op = "post_dispatch_details" /\ last.op = "inner_post_dispatch_details")
          => LET extra == refund_for_entry_mode(mode) IN
             last'.refund =
                 from_parts(Min(last.refund.ref_time + extra.ref_time, U64_MAX),
                            Min(last.refund.proof_size + extra.proof_size, U64_MAX))]_vars

\* a post_dispatch entered on FractionOfCore escalated to FullCore and refunded
\* by the weight of the FractionOfCore branch, which differs from the one of
\* the FullCore branch
C28_Witness ==
    /\ last.op = "post_dispatch_extrinsic"
    /\ is_kind(last.before, "FractionOfCore")
    /\ mode = Some(FullCore)
    /\ cfg.WeightInfo.max_weight = from_parts(1, 1)
    /\ cfg.WeightInfo.full_core = from_parts(1, 1)
    /\ cfg.WeightInfo.stays_fraction_of_core = from_parts(0, 0)
    /\ last.refund = from_parts(1, 1)

\* C29: while the inherents are not applied every mode stored by pre_validate
\* carries first_transaction_index = None; the first pre_validate that succeeds
\* after the inherents are applied, on a mode other than FullCore, stores
\* first_transaction_index = Some(index of that extrinsic); a
\* first_transaction_index that is set is not set again.
C29_FirstTransactionIndexSetOnce ==
    [][/\ (last'.op \in ValidateOps /\ ~inherents_applied
           /\ has_first_transaction_index(mode'))
          => mode'[1].first_transaction_index = None
       /\ ( /\ last'.op \in ValidateOps
            /\ inherents_applied
            /\ last'.result # "ExhaustsResources"
            /\ mode # Some(FullCore)
            /\ mode' # Some(FullCore)
            /\ (mode = None \/ mode[1].first_transaction_index = None) )
          => /\ has_first_transaction_index(mode')
             /\ mode'[1].first_transaction_index = Some(unwrap_or_default(extrinsic_index))
       /\ ( /\ has_first_transaction_index(mode)
            /\ mode[1].first_transaction_index # None
            /\ has_first_transaction_index(mode') )
          => mode'[1].first_transaction_index = mode[1].first_transaction_index]_vars

\* after one inherent the first transaction was pre-validated on a mode still
\* carrying no first_transaction_index
C29_Witness ==
    /\ inherents_applied
    /\ pre_validate_ran
    /\ last.result = "Ok"
    /\ is_kind(last.before, "FractionOfCore")
    /\ last.before[1].first_transaction_index = None
    /\ extrinsic_index = Some(1)
    /\ has_first_transaction_index(mode)
    /\ mode[1].first_transaction_index = Some(1)

\* C30: a pre_validate that weighs an extrinsic treats it as over budget
\* (promotes or rejects it) if and only if its total_weight exceeds the target
\* in ref_time or its total_weight plus its encoded length exceeds the target
\* in proof_size.
C30_LengthCountsAsProofSize ==
    pre_validate_weighed
    => LET target == target_weight_of(last.info, digest)
           over_budget ==
               \/ last.info.total_weight.ref_time > target.ref_time
               \/ last.info.total_weight.proof_size + last.len > target.proof_size
       IN
       /\ over_budget
             => \/ last.result = "ExhaustsResources"
                \/ /\ is_kind(mode, "PotentialFullCore")
                   /\ mode[1].target_weight = target
       /\ ~over_budget
             => /\ last.result # "ExhaustsResources"
                /\ is_kind(mode, "FractionOfCore")

\* the total_weight of the extrinsic fits its target in both dimensions and
\* its encoded length takes it over the target in proof_size
C30_Witness ==
    /\ pre_validate_weighed
    /\ all_lte(last.info.total_weight, target_weight_of(last.info, digest))
    /\ last.len > 0
    /\ last.info.total_weight.proof_size + last.len
           > target_weight_of(last.info, digest).proof_size
    /\ last.result = "Ok"
    /\ is_kind(mode, "PotentialFullCore")

\* the block weight post_dispatch_extrinsic was handed in the step: the block
\* weight after the step less what the step itself registered as Mandatory
block_weight_handed_to_post_dispatch ==
    [block_weight' EXCEPT !["Mandatory"] = saturating_sub(@, last'.registered)]

\* C31: validate and bare_validate_and_prepare run pre_validate_extrinsic
\* before the inner extension and do not invoke the inner extension when it
\* rejects; the effects of pre_validate_extrinsic are there whatever the inner
\* extension returns. post_dispatch_details and bare_post_dispatch run the
\* inner extension first: post_dispatch_extrinsic acts on the block weight
\* that includes what the inner extension registered, and does not run when
\* the inner extension fails.
C31_HookOrdering ==
    [][/\ last'.op \in ValidateOps
          => LET out == pre_validate_extrinsic(last'.info, last'.len, mode, digest,
                                               block_weight)
             IN /\ ~out.ok => /\ last'.inner = "none"
                              /\ last'.result = "ExhaustsResources"
                /\ out.ok => /\ last'.inner \in {"Ok", "Err"}
                             /\ last'.result = "InnerError" <=> last'.inner = "Err"
                /\ mode' = out.mode
                /\ digest' = out.digest
                /\ block_weight' = out.block_weight
       /\ last'.op \in PostDispatchOps
          => /\ last'.inner \in {"Ok", "Err"}
             /\ last'.inner = "Err"
                   => /\ last'.result = "InnerError"
                      /\ mode' = mode
                      /\ digest' = digest
                      /\ block_weight' = block_weight
             /\ last'.inner = "Ok"
                   => LET out == post_dispatch_extrinsic(
                                     cur, mode, digest,
                                     block_weight_handed_to_post_dispatch)
                      IN /\ any_gt(consumed(block_weight_handed_to_post_dispatch),
                                   consumed(block_weight))
                         /\ mode' = out.mode
                         /\ digest' = out.digest
                         /\ block_weight' = out.block_weight
                         /\ last'.refund = out.refund]_vars

\* the weight the inner extension registered for the extrinsic took the block
\* over its target: post_dispatch_extrinsic, which ran after it, stored FullCore
C31_Witness ==
    /\ post_dispatch_ran
    /\ last.inner = "Ok"
    /\ is_kind(last.before, "FractionOfCore")
    /\ mode = Some(FullCore)
    /\ \A w \in ActualWeights :
          all_lte(saturating_sub(saturating_sub(consumed(block_weight), last.registered),
                                 w),
                  target_block_weight_with_digest(digest))

\* the last call was the get of max_parachain_block_weight.rs, before the
\* inherents were applied, on a digest with CoreInfo and without BundleInfo
old_get_cores_without_bundle ==
    /\ last.op = "mpbw_get"
    /\ ~inherents_applied
    /\ find_core_info(digest) # None
    /\ find_bundle_info(digest) = None

\* C32 as claimed: for a digest with CoreInfo of n cores and no BundleInfo,
\* before the inherents are applied, the get of max_parachain_block_weight.rs
\* returns ref_time = min(n * 2s / target_blocks, 2s) and
\* proof_size = n * MAX_POV_SIZE / target_blocks, for every n.
C32_OldGetShareOfAnyCores ==
    (old_get_cores_without_bundle /\ cfg.TargetBlockRate >= 1)
    => LET n == number_of_cores_of(digest)
           t == cfg.TargetBlockRate
           s == WEIGHT_REF_TIME_PER_SECOND
       IN
       /\ last.refund.ref_time = Min((n * 2 * s) \div t, 2 * s)
       /\ last.refund.proof_size = (n * MAX_POV_SIZE) \div t
       /\ (n = 3 /\ t = 1) => last.refund = from_parts(2 * s, 3 * MAX_POV_SIZE)

\* C32 amended: the same for n >= 1 cores and target_blocks >= 1 (3 cores and
\* 1 target block give 2s of ref_time and 3 * MAX_POV_SIZE of proof_size);
\* with 0 cores or 0 target blocks the get returns (2s, MAX_POV_SIZE).
C32_OldGetShareOfCores ==
    old_get_cores_without_bundle
    => LET n == number_of_cores_of(digest)
           t == cfg.TargetBlockRate
           s == WEIGHT_REF_TIME_PER_SECOND
       IN
       IF n >= 1 /\ t >= 1
       THEN /\ last.refund.ref_time = Min((n * 2 * s) \div t, 2 * s)
            /\ last.refund.proof_size = (n * MAX_POV_SIZE) \div t
            /\ (n = 3 /\ t = 1) => last.refund = from_parts(2 * s, 3 * MAX_POV_SIZE)
       ELSE last.refund = from_parts(2 * s, MAX_POV_SIZE)

\* three cores and one target block: the proof_size returned is that of the
\* three cores, above the MAX_POV_SIZE of one
C32_Witness ==
    /\ old_get_cores_without_bundle
    /\ number_of_cores_of(digest) = 3
    /\ cfg.TargetBlockRate = 1
    /\ last.refund.ref_time = 2 * WEIGHT_REF_TIME_PER_SECOND
    /\ last.refund.proof_size = 3 * MAX_POV_SIZE
    /\ last.refund.proof_size > MAX_POV_SIZE

\* C33: after every post_dispatch that returned, a Mode Store holding
\* FractionOfCore means that the consumed block weight exceeds
\* target_block_weight in no dimension; a block whose consumed weight exceeds
\* the target is on FullCore with UseFullCore in its digest.
C33_FractionOfCoreWithinTarget ==
    post_dispatch_ran
    => /\ is_kind(mode, "FractionOfCore")
             => all_lte(consumed(block_weight), target_block_weight_with_digest(digest))
       /\ any_gt(consumed(block_weight), target_block_weight_with_digest(digest))
             => /\ mode = Some(FullCore)
                /\ CountUseFullCore(digest) >= 1

\* the last call pre-validated the first transaction of the block: the
\* inherents are applied and no first_transaction_index was stored before
last_is_first_transaction ==
    /\ pre_validate_ran
    /\ inherents_applied
    /\ (last.before # None /\ has_first_transaction_index(last.before))
           => last.before[1].first_transaction_index = None

\* C34: with MAX_TRANSACTION_TO_CONSIDER >= 1, on a first-in-core block, a
\* pre_validate that weighs the first transaction of the block, of an allowed
\* class and announcing more than the target, stores PotentialFullCore and
\* does not reject, whatever the number of inherents applied before it.
C34_FirstTransactionPromoted ==
    ( /\ cfg.MAX_TRANSACTION_TO_CONSIDER >= 1
      /\ pre_validate_weighed
      /\ last_is_first_transaction
      /\ is_first_block_in_core_with_digest(digest)
      /\ last_is_over_target
      /\ (cfg.ONLY_OPERATIONAL => last.info.class = "Operational") )
    => /\ is_kind(mode, "PotentialFullCore")
       /\ last.result # "ExhaustsResources"

\* C35: a post_dispatch that finds no mode stored returns a zero refund of
\* its own (post_dispatch_details returns the refund of the inner extension
\* alone), leaves the mode None, deposits no digest item and registers no
\* weight, even if the consumed block weight exceeds the target.
C35_NoModeNoEffect ==
    [][( /\ last'.op \in {"post_dispatch_extrinsic", "post_dispatch_details"}
         /\ mode = None )
       => /\ last'.refund = IF last'.op = "post_dispatch_extrinsic"
                            THEN zero ELSE last.refund
          /\ mode' = None
          /\ digest' = digest
          /\ block_weight' = block_weight
          /\ last'.registered = zero]_vars

\* post_dispatch_extrinsic ran without a mode on a block whose consumed weight
\* is above its target
C35_Witness ==
    /\ last.op = "post_dispatch_extrinsic"
    /\ last.before = None
    /\ mode = None
    /\ any_gt(consumed(block_weight), target_block_weight_with_digest(digest))
    /\ CountUseFullCore(digest) = 0
    /\ last.refund = zero

\* the last call built a collation of the blocks handed to it
collation_built ==
    /\ collator.op \in {"build_multi_block_collation", "build_collation"}
    /\ collator.result # None

\* the upward messages of the i-th block handed to the last call
upward_messages_of_block(i) == collator.fetched[i].value.upward_messages

\* position of the separator in a list of upward messages, past its end if
\* the list has none
separator_position(ms) ==
    IF \E i \in 1..Len(ms) : ms[i] = UMP_SEPARATOR
    THEN CHOOSE i \in 1..Len(ms) :
            /\ ms[i] = UMP_SEPARATOR
            /\ \A j \in 1..(i - 1) : ms[j] # UMP_SEPARATOR
    ELSE Len(ms) + 1

\* the regular messages of a block: those before its separator, all of them
\* if it has no separator
regular_messages(ms) == SubSeq(ms, 1, separator_position(ms) - 1)

\* the signals of a block: the messages after its separator
signals_after_separator(ms) ==
    {ms[i] : i \in (separator_position(ms) + 1)..Len(ms)} \ {UMP_SEPARATOR}

\* the regular messages of the first n blocks handed to the last call, in
\* block order
RECURSIVE regular_messages_of_blocks(_)
regular_messages_of_blocks(n) ==
    IF n = 0 THEN <<>>
    ELSE regular_messages_of_blocks(n - 1)
            \o regular_messages(upward_messages_of_block(n))

\* the signals of all blocks handed to the last call
signals_of_blocks ==
    UNION {signals_after_separator(upward_messages_of_block(i)) :
              i \in 1..Len(collator.fetched)}

\* C36: the upward messages of a collation are the regular messages of the
\* blocks in block order, followed, only if some block has a message after its
\* separator, by one UMP_SEPARATOR and each distinct signal once; a message a
\* block emitted before its separator, or in a list without separator, is not
\* repeated after the separator of the result.
C36_UpwardMessagesAndSignals ==
    collation_built
    => LET upward_messages == collator.result[1].upward_messages
           regular == regular_messages_of_blocks(Len(collator.fetched))
       IN
       IF signals_of_blocks = {}
       THEN upward_messages = regular
       ELSE \E order \in Enumerations(signals_of_blocks) :
               upward_messages = regular \o <<UMP_SEPARATOR>> \o order

\* the CollationInfo of the i-th block handed to the last call
collation_info_of_block(i) == collator.fetched[i].value

\* sum of processed_downward_messages over the first n blocks
RECURSIVE processed_downward_messages_of_blocks(_)
processed_downward_messages_of_blocks(n) ==
    IF n = 0 THEN 0
    ELSE processed_downward_messages_of_blocks(n - 1)
            + collation_info_of_block(n).processed_downward_messages

\* the horizontal messages of the first n blocks, in block order
RECURSIVE horizontal_messages_of_blocks(_)
horizontal_messages_of_blocks(n) ==
    IF n = 0 THEN <<>>
    ELSE horizontal_messages_of_blocks(n - 1)
            \o collation_info_of_block(n).horizontal_messages

\* the blocks that provide a new validation code
blocks_with_code ==
    {i \in 1..Len(collator.fetched) : collation_info_of_block(i).new_validation_code # None}

\* C37: a collation built from a list of blocks has the head_data and the
\* hrmp_watermark of the last block, the sum of the processed_downward_messages
\* of all blocks, the horizontal messages of all blocks in block order, and the
\* new_validation_code of the first block that provides one (none if no block
\* does).
C37_FoldInBlockOrder ==
    collation_built
    => LET n == Len(collator.fetched)
           collation == collator.result[1]
       IN
       /\ n >= 1
       /\ collation.head_data = collation_info_of_block(n).head_data
       /\ collation.hrmp_watermark = collation_info_of_block(n).hrmp_watermark
       /\ collation.processed_downward_messages = processed_downward_messages_of_blocks(n)
       /\ collation.horizontal_messages = horizontal_messages_of_blocks(n)
       /\ collation.new_validation_code =
              IF blocks_with_code = {} THEN None
              ELSE collation_info_of_block(
                       CHOOSE i \in blocks_with_code :
                          \A j \in blocks_with_code : i <= j).new_validation_code

\* a collation of two blocks that both provide a validation code and a
\* horizontal message: the code is that of the first block, the head data that
\* of the second
C37_Witness ==
    /\ collator.op = "build_multi_block_collation"
    /\ collator.result # None
    /\ Len(collator.fetched) = 2
    /\ blocks_with_code = {1, 2}
    /\ collation_info_of_block(1).new_validation_code
          # collation_info_of_block(2).new_validation_code
    /\ collator.result[1].new_validation_code = collation_info_of_block(1).new_validation_code
    /\ collator.result[1].head_data = collation_info_of_block(2).head_data
    /\ Len(collation_info_of_block(1).horizontal_messages) = 1
    /\ Len(collation_info_of_block(2).horizontal_messages) = 1
    /\ collator.result[1].processed_downward_messages
          > collation_info_of_block(2).processed_downward_messages

\* the last call was handed blocks whose collation infos could all be fetched
all_collation_infos_fetched ==
    \A i \in 1..Len(collator.fetched) : collator.fetched[i].tag = "Some"

\* the number of upward messages of the blocks handed to the last call: the
\* regular messages and, if there are signals, the separator and the signals
number_of_upward_messages ==
    Len(regular_messages_of_blocks(Len(collator.fetched)))
        + IF signals_of_blocks = {} THEN 0 ELSE 1 + Cardinality(signals_of_blocks)

\* C38: build_multi_block_collation returns None when the block list is
\* empty, when the proof cannot be compacted, when the collation info of a
\* block or the api version of the parent cannot be fetched, when that version
\* is below 3 and more than one block is given, and when the upward or the
\* horizontal messages are more than their bound; a collation it returns is
\* that of all blocks; build_collation is build_multi_block_collation on the
\* one block of the candidate.
C38_NoneOnEveryFailure ==
    collator.op \in {"build_multi_block_collation", "build_collation"}
    => LET n == Len(collator.fetched)
           version == collator.parent_api_version
       IN
       /\ n = 0 => collator.result = None
       /\ ~collator.proof_ok => collator.result = None
       /\ ~all_collation_infos_fetched => collator.result = None
       /\ version.tag # "Some" => collator.result = None
       /\ (version.tag = "Some" /\ version.value < 3 /\ n > 1) => collator.result = None
       /\ (all_collation_infos_fetched
             /\ number_of_upward_messages > MAX_UPWARD_MESSAGE_NUM)
              => collator.result = None
       /\ (all_collation_infos_fetched
             /\ Len(horizontal_messages_of_blocks(n)) > MAX_HORIZONTAL_MESSAGE_NUM)
              => collator.result = None
       /\ collator.result # None => collator.result[1].block_data = n
       /\ collator.op = "build_collation"
              => /\ n = 1
                 /\ \E signal_order \in Enumerations(
                           upward_message_signals_of(collator.fetched, version)) :
                       collator.result = build_multi_block_collation(
                                             collator.proof_ok, version, collator.fetched,
                                             signal_order)

\* two blocks were handed over with a proof that compacts, at api version 3,
\* with few upward messages: only the horizontal messages are too many
C38_Witness ==
    /\ collator.op = "build_multi_block_collation"
    /\ collator.proof_ok
    /\ Len(collator.fetched) = 2
    /\ all_collation_infos_fetched
    /\ collator.parent_api_version = FetchSome(3)
    /\ number_of_upward_messages = 0
    /\ Len(horizontal_messages_of_blocks(2)) = MAX_HORIZONTAL_MESSAGE_NUM + 1
    /\ collator.result = None

\* C39: opcode tracing only adds logging: once the same bytecode has been
\* called with and without opcode tracing, both calls ran the same opcodes at
\* the same program counters and halted with the same result.
C39_TracingOnlyAddsLogging ==
    (interpreter.op = "call" /\ interpreter.plain # None /\ interpreter.traced # None)
        => /\ interpreter.plain[1].opcodes = interpreter.traced[1].opcodes
           /\ interpreter.plain[1].halt = interpreter.traced[1].halt

====
